---- MODULE Spec2Model ----
(***************************************************************************)
(* Model of the streaming tool-call orchestrator of routers/chat.py:       *)
(* stream_response / event_generator / iterate_stream.  One turn is one    *)
(* run of event_generator.  iterate_stream is a recursive async generator: *)
(* the model keeps its activation records on `stack`, one frame per        *)
(* upstream sub-stream being drained, and records everything observable    *)
(* (upstream events consumed, downstream SSE events yielded, tool          *)
(* dispatches, submissions, stream opens and releases) in `trace`.         *)
(***************************************************************************)
EXTENDS Naturals, Sequences, FiniteSets

VARIABLES
    status,     \* "init" | "running" | "done" | "cancelled" | "crashed"
    show,       \* show_tool_call_detail (chat.py:97)
    stack,      \* activation records of iterate_stream, innermost last
    open,       \* sub-streams opened and not yet released
    nstreams,   \* number of sub-streams opened so far (ids 1..nstreams)
    nevents,    \* upstream events delivered between ResponseCreated and the terminal
    ncalls,     \* finished function calls delivered by upstream
    trace,      \* everything observable, in order
    submitted,  \* function_call_output items created upstream, in order
    impl,       \* the module whose update_env_file is called
    env,        \* the .env file: [exists, text]
    written,    \* the update_env_file calls made so far: [name, value]
    registry,   \* the tool.config.json file: [exists, text]
    generated,  \* the entries of the last generate_registry_file call: [done, entries]
    readback,   \* what read_registry_entries returned after it: [done, entries]
    environ,    \* os.environ's OPENAI_API_KEY: [set, value]
    setup_message,  \* setup_message of the last GET /setup/: [done, text]
    environ_tools,  \* os.environ's ENABLED_TOOLS: [set, value]
    current_tools,  \* current_tools of the last GET /setup/: [done, tools]
    stored,     \* the stored configuration a turn reads: [model, instructions, enabled_tools]
    closure,    \* model, instructions and tools of event_generator: [read, ...]
    requests,   \* the client.responses.create calls of the turn, in order
    posts,      \* the POST /setup/config requests handled: [model, instructions, status]
    environ_vs, \* os.environ's VECTOR_STORE_ID: [set, value]
    vector_stores,  \* the ids of the vector stores created upstream, in order
    vs_calls,   \* the get_or_create_vector_store calls: [route, pc, id]
    disk,       \* the absolute paths of the files that exist
    vs_files,   \* the ids of the files in the vector store
    base_files, \* the ids of the file objects upstream
    deletions,  \* the DELETE /files/{file_id} requests handled
    served      \* the retrieve_file and delete_local_file calls: [op, file_name, existed, outcome]

turnvars == <<status, show, stack, open, nstreams, nevents, ncalls, trace, submitted>>

filevars == <<impl, env, written, registry, generated, readback, environ, setup_message,
              environ_tools, current_tools>>

reqvars == <<stored, closure, requests>>

savevars == <<posts>>

vsvars == <<environ_vs, vector_stores, vs_calls>>

pathvars == <<disk, served>>

delvars == <<vs_files, base_files, deletions>>

extvars == <<reqvars, savevars, vsvars, pathvars, delvars>>

cfgvars == <<filevars, extvars>>

vars == <<turnvars, cfgvars>>

----------------------------------------------------------------------------
(* Bounds of the model. *)

MaxEvents == 2
MaxCalls == 2
MaxSaves == 1

ItemIds == {"a", "b"}
ItemKinds == {"message", "function_call"}
Registered == {"get_weather"}

----------------------------------------------------------------------------
(* JSON values, json.dumps and json.loads.                                 *)
(* A value is a record [t, a, o]: t = "str" (a string a), "lit" (a number  *)
(* or true/false, written a), "null", or "obj" (o = sequence of <<key,     *)
(* value>> pairs, in insertion order).  JSON text is a sequence of tokens  *)
(* [tt, s]: punctuation, a quoted string, or a bare literal.               *)

Str(s) == [t |-> "str", a |-> s, o |-> <<>>]
Lit(s) == [t |-> "lit", a |-> s, o |-> <<>>]
Null == [t |-> "null", a |-> "", o |-> <<>>]
Obj(pairs) == [t |-> "obj", a |-> "", o |-> pairs]
(* A list: o is the sequence of its items. *)
Arr(items) == [t |-> "arr", a |-> "", o |-> items]

P(s) == [tt |-> "p", s |-> s]
TStr(s) == [tt |-> "str", s |-> s]
TLit(s) == [tt |-> "lit", s |-> s]

RECURSIVE JsonDumps(_)
RECURSIVE DumpPairs(_, _)
DumpPairs(pairs, i) ==
    IF i > Len(pairs) THEN <<>>
    ELSE (IF i > 1 THEN <<P(",")>> ELSE <<>>)
         \o <<TStr(pairs[i][1]), P(":")>> \o JsonDumps(pairs[i][2])
         \o DumpPairs(pairs, i + 1)

RECURSIVE DumpItems(_, _)
DumpItems(items, i) ==
    IF i > Len(items) THEN <<>>
    ELSE (IF i > 1 THEN <<P(",")>> ELSE <<>>)
         \o JsonDumps(items[i]) \o DumpItems(items, i + 1)

JsonDumps(v) ==
    CASE v.t = "str" -> <<TStr(v.a)>>
      [] v.t = "lit" -> <<TLit(v.a)>>
      [] v.t = "null" -> <<TLit("null")>>
      [] v.t = "arr" -> <<P("[")>> \o DumpItems(v.o, 1) \o <<P("]")>>
      [] OTHER -> <<P("{")>> \o DumpPairs(v.o, 1) \o <<P("}")>>

(* The parser returns [ok, val, next]: next is the index after the value. *)
ParseFail == [ok |-> FALSE, val |-> Null, next |-> 0]

RECURSIVE ParseValue(_, _)
RECURSIVE ParseMembers(_, _, _)
ParseMembers(toks, i, acc) ==
    IF i + 1 > Len(toks) \/ toks[i].tt # "str" \/ toks[i + 1] # P(":")
    THEN ParseFail
    ELSE LET r == ParseValue(toks, i + 2) IN
         IF ~r.ok \/ r.next > Len(toks) THEN ParseFail
         ELSE LET acc2 == Append(acc, <<toks[i].s, r.val>>) IN
              IF toks[r.next] = P("}")
              THEN [ok |-> TRUE, val |-> Obj(acc2), next |-> r.next + 1]
              ELSE IF toks[r.next] = P(",")
                   THEN ParseMembers(toks, r.next + 1, acc2)
                   ELSE ParseFail

RECURSIVE ParseItems(_, _, _)
ParseItems(toks, i, acc) ==
    LET r == ParseValue(toks, i) IN
    IF ~r.ok \/ r.next > Len(toks) THEN ParseFail
    ELSE LET acc2 == Append(acc, r.val) IN
         IF toks[r.next] = P("]")
         THEN [ok |-> TRUE, val |-> Arr(acc2), next |-> r.next + 1]
         ELSE IF toks[r.next] = P(",")
              THEN ParseItems(toks, r.next + 1, acc2)
              ELSE ParseFail

ParseValue(toks, i) ==
    IF i > Len(toks) THEN ParseFail
    ELSE CASE toks[i].tt = "str" -> [ok |-> TRUE, val |-> Str(toks[i].s), next |-> i + 1]
           [] toks[i].tt = "lit" ->
                [ok |-> TRUE,
                 val |-> IF toks[i].s = "null" THEN Null ELSE Lit(toks[i].s),
                 next |-> i + 1]
           [] toks[i] = P("{") ->
                IF i + 1 <= Len(toks) /\ toks[i + 1] = P("}")
                THEN [ok |-> TRUE, val |-> Obj(<<>>), next |-> i + 2]
                ELSE ParseMembers(toks, i + 1, <<>>)
           [] toks[i] = P("[") ->
                IF i + 1 <= Len(toks) /\ toks[i + 1] = P("]")
                THEN [ok |-> TRUE, val |-> Arr(<<>>), next |-> i + 2]
                ELSE ParseItems(toks, i + 1, <<>>)
           [] OTHER -> ParseFail

(* json.loads: the whole text must be one value; anything else raises. *)
JsonLoads(toks) ==
    LET r == ParseValue(toks, 1) IN
    IF r.ok /\ r.next = Len(toks) + 1 THEN r ELSE ParseFail

(* The member of object v named key, as a one-element or empty sequence. *)
Member(v, key) ==
    LET hits == SelectSeq(v.o, LAMBDA p : p[1] = key) IN
    IF hits = <<>> THEN <<>> ELSE <<hits[1][2]>>

Keys(v) == { v.o[i][1] : i \in DOMAIN v.o }

----------------------------------------------------------------------------
(* Tool results (FunctionResult) and the registry.                         *)

(* result.model_dump(exclude_none=True): the fields in declaration order,  *)
(* those whose value is None left out.                                     *)
ModelDump(r) ==
    Obj(SelectSeq(<<<<"ok", r.ok>>, <<"payload", r.payload>>,
                    <<"render_hint", r.render_hint>>>>,
                  LAMBDA p : p[2].t # "null"))

NoResult == [ok |-> Null, payload |-> Null, render_hint |-> Null]

(* FUNCTION_REGISTRY.call(name, arguments): an unregistered name and a     *)
(* handler failure both come back as a result with ok = false.             *)
RegistryCall(name, raised) ==
    IF name \notin Registered
    THEN [ok |-> Lit("false"),
          payload |-> Obj(<<<<"error", Str("unknown tool")>>>>),
          render_hint |-> Null]
    ELSE IF raised
    THEN [ok |-> Lit("false"),
          payload |-> Obj(<<<<"message", Str("cause")>>>>),
          render_hint |-> Null]
    ELSE [ok |-> Lit("true"),
          payload |-> Obj(<<<<"location", Str("Paris")>>, <<"temperature", Lit("70")>>>>),
          render_hint |-> Str("weather")]

(* Names with a template_path in tool.config.json. *)
TEMPLATE_REGISTRY == {"get_weather"}

ArgsValid == JsonDumps(Obj(<<<<"location", Str("Paris")>>>>))
ArgsTruncated == <<P("{"), TStr("location"), P(":")>>

(* The finished function calls upstream may deliver: tool name and the     *)
(* arguments text.                                                         *)
CallVariants ==
    { [name |-> "get_weather", args |-> ArgsValid],
      [name |-> "get_weather", args |-> ArgsTruncated],
      [name |-> "does_not_exist", args |-> ArgsValid] }

----------------------------------------------------------------------------
(* Trace entries.  k = "up" (upstream event consumed), "down" (SSE event   *)
(* yielded), "dispatch", "submit", "open", "release", "raise", "cancel".   *)

Entry(k, name, item, sid, data, aux, par) ==
    [k |-> k, name |-> name, item |-> item, sid |-> sid, data |-> data,
     aux |-> aux, par |-> par]

Up(name, item, sid, data, aux) == Entry("up", name, item, sid, data, aux, 0)

(* sse_format(name, payload) as yielded by the frame draining sub-stream   *)
(* sid; item is the step the payload is scoped to ("" when unscoped).      *)
Down(name, item, sid, data) == Entry("down", name, item, sid, data, "", 0)

Mark(k, sid) == Entry(k, "", "", sid, "", "", 0)

NoCall == [item |-> "", name |-> "", args |-> Null]

(* Response ids are the numbers of the sub-streams that announce them; the *)
(* default response_id = "" of iterate_stream is 0.                        *)
NoResponseId == 0

(* An activation that starts with the item the resuming frame was         *)
(* anchored to.                                                            *)
FrameKeepingItem(sid, rid) ==
    [sid |-> sid, pc |-> "drain", started |-> FALSE, ended |-> FALSE,
     current_item_id |-> IF stack = <<>> THEN "" ELSE stack[Len(stack)].current_item_id,
     response_id |-> rid, call |-> NoCall, result |-> NoResult]

(* A fresh activation of iterate_stream(s, response_id). *)
Frame(sid, rid) ==
    [sid |-> sid, pc |-> "drain", started |-> FALSE, ended |-> FALSE,
     current_item_id |-> "", response_id |-> rid, call |-> NoCall,
     result |-> NoResult]

Top == stack[Len(stack)]

SetTop(f) == [stack EXCEPT ![Len(stack)] = f]

(* The generator of the top frame has returned: its caller, suspended in   *)
(* `async for out in iterate_stream(...)`, goes on with its own stream.    *)
Popped ==
    IF Len(stack) = 1 THEN <<>>
    ELSE [i \in 1 .. Len(stack) - 1 |->
            IF i = Len(stack) - 1 THEN [stack[i] EXCEPT !.pc = "drain"] ELSE stack[i]]

Running == status = "running" /\ stack # <<>>

(* A frame that goes on taking upstream events while FUNCTION_REGISTRY.call *)
(* is still pending.                                                       *)
DrainingWhileDispatching ==
    Running /\ Top.pc \in {"drain", "dispatch"} /\ Top.started /\ ~Top.ended

Draining == Running /\ Top.pc = "drain" /\ Top.started /\ ~Top.ended

MoreEvents == Draining /\ nevents < MaxEvents

(* wrap_for_oob_swap(step_id, text_value): the payload inside the span     *)
(* that scopes it to step step_id.                                         *)
wrap_for_oob_swap(step_id, text_value) ==
    "<span hx-swap-oob=\"beforeend:#step-" \o step_id \o "\">" \o text_value \o "</span>"

(* What reaches the client of a value yielded under `levels` relays: each  *)
(* enclosing activation (`async for out in iterate_stream(...): yield out`) *)
(* and event_generator (`async for sse in ...: yield sse`) yields the      *)
(* value it received.                                                      *)
RECURSIVE Relayed(_, _)
Relayed(out, levels) == IF levels = 0 THEN out ELSE Relayed(out, levels - 1)

(* A scoped event whose payload is wrapped again when it leaves a resumed  *)
(* sub-stream.                                                             *)
ScopedDownRewrapped(name, item, sid, text) ==
    Entry("down", name, item, sid, text,
          IF Len(stack) > 1
          THEN wrap_for_oob_swap(item, wrap_for_oob_swap(item, text))
          ELSE wrap_for_oob_swap(item, text), 0)

(* sse_format(name, wrap_for_oob_swap(item, text)) as yielded by the top   *)
(* frame: data is the text, aux the payload the client receives.           *)
ScopedDown(name, item, sid, text) ==
    Entry("down", name, item, sid, text,
          Relayed(wrap_for_oob_swap(item, text), Len(stack)), 0)

----------------------------------------------------------------------------
(* Files are records [exists, text]; text is a sequence of tokens.  A turn *)
(* reads and writes none of the configuration files.                       *)

NoFile == [exists |-> FALSE, text |-> <<>>]

File(text) == [exists |-> TRUE, text |-> text]

NoEntries == [done |-> FALSE, entries |-> <<>>]

Unset == [set |-> FALSE, value |-> <<>>]

NoMessage == [done |-> FALSE, text |-> ""]

NoTools == [done |-> FALSE, tools |-> <<>>]

(* RESPONSES_MODEL, RESPONSES_INSTRUCTIONS (<<>> when unset) and            *)
(* ENABLED_TOOLS as stored when nothing was saved.                         *)
DefaultConfig ==
    [model |-> "gpt-5-mini", instructions |-> <<>>, enabled_tools |-> {"function"}]

NoClosure == [read |-> FALSE, model |-> "", instructions |-> <<>>, tools |-> <<>>]

RequestsIdle ==
    /\ stored = DefaultConfig
    /\ closure = NoClosure
    /\ requests = <<>>

VectorStoreIdle ==
    /\ environ_vs = [set |-> FALSE, value |-> <<>>]
    /\ vector_stores = <<>>
    /\ vs_calls = <<>>

DeletionsIdle == vs_files = {} /\ base_files = {} /\ deletions = <<>>

ExtIdle ==
    /\ RequestsIdle /\ posts = <<>> /\ VectorStoreIdle
    /\ disk = {} /\ served = <<>>
    /\ DeletionsIdle

ConfigUntouched ==
    /\ ExtIdle
    /\ impl = "config"
    /\ env = NoFile
    /\ written = <<>>
    /\ registry = NoFile
    /\ generated = NoEntries
    /\ readback = NoEntries
    /\ environ = Unset
    /\ setup_message = NoMessage
    /\ environ_tools = Unset
    /\ current_tools = NoTools

----------------------------------------------------------------------------
(* The state after construction. *)

Init ==
    /\ status = "init"
    /\ show \in BOOLEAN
    /\ stack = <<>>
    /\ open = {}
    /\ nstreams = 0
    /\ nevents = 0
    /\ ncalls = 0
    /\ trace = <<>>
    /\ submitted = <<>>
    /\ ConfigUntouched

(* stream = await client.responses.create(...); iterate_stream(stream) *)
(* conversation_id of the turn, a path parameter of the route. *)
ConversationId == "conv_1"

(* The tool types in the order event_generator appends them to tools. *)
ToolOrder == <<"file_search", "code_interpreter", "function", "mcp">>

(* model, instructions and tools as event_generator builds them from the   *)
(* stored configuration when the turn starts.                              *)
ReadConfig(config) ==
    [read |-> TRUE, model |-> config.model, instructions |-> config.instructions,
     tools |-> SelectSeq(ToolOrder, LAMBDA t : t \in config.enabled_tools)]

(* The arguments of client.responses.create(...) made from the variables   *)
(* of event_generator; tools is NOT_GIVEN when the list is empty.          *)
Request(c) ==
    [conversation |-> ConversationId, model |-> c.model,
     tools |-> [given |-> c.tools # <<>>, list |-> c.tools],
     instructions |-> c.instructions, parallel_tool_calls |-> FALSE]

OpenInitial ==
    /\ status = "init"
    /\ status' = "running"
    /\ nstreams' = 1
    /\ open' = {1}
    /\ stack' = <<Frame(1, NoResponseId)>>
    /\ trace' = Append(trace, Entry("open", "", "", 1, "", "", 0))
    /\ closure' = ReadConfig(stored)
    /\ requests' = Append(requests, Request(closure'))
    /\ UNCHANGED <<show, nevents, ncalls, submitted>>
    /\ UNCHANGED <<filevars, savevars, vsvars, pathvars, delvars, stored>>

(* The initial create raises: outside iterate_stream's try, nothing is     *)
(* yielded.                                                                *)
OpenInitialFails ==
    /\ status = "init"
    /\ status' = "crashed"
    /\ trace' = Append(trace, Mark("raise", 0))
    /\ UNCHANGED <<show, stack, open, nstreams, nevents, ncalls, submitted>>
    /\ UNCHANGED cfgvars

----------------------------------------------------------------------------
(* Leaving a frame. *)

(* except Exception: the three events of the failure path. *)
ErrorEvents(sid) ==
    << Down("runCompleted", "", sid, "<span hx-swap-oob=\"outerHTML:.dots\"></span>"),
       Down("networkError", "", sid, "<span></span>"),
       Down("endStream", "", sid, "ERROR") >>

(* An exception raised inside `try: async with s as events:` of the top    *)
(* frame: the stream is released by the async with, the handler yields the *)
(* error events and the generator returns.                                 *)
Except(before) ==
    /\ trace' = trace \o before
                 \o <<Mark("raise", Top.sid), Mark("release", Top.sid)>>
                 \o ErrorEvents(Top.sid)
    /\ open' = open \ {Top.sid}
    /\ stack' = Popped
    /\ status' = IF Len(stack) = 1 THEN "done" ELSE "running"

(* A cancellation that releases the stream of the innermost frame only. *)
ReleasedInnermostOnly(stk) ==
    IF stk = <<>> THEN {} ELSE {stk[Len(stk)].sid}

(* The sub-streams released when CancelledError unwinds the frames of stk: *)
(* every frame is inside its own `async with`.                             *)
ReleasedOnUnwind(stk) == { stk[i].sid : i \in DOMAIN stk }

(* A cancellation caught by the handler of the other exceptions. *)
RECURSIVE UnwindCancelledAsFailure(_)
UnwindCancelledAsFailure(stk) ==
    IF stk = <<>> THEN <<>>
    ELSE <<Mark("release", stk[Len(stk)].sid)>> \o ErrorEvents(stk[Len(stk)].sid)
         \o UnwindCancelledAsFailure(SubSeq(stk, 1, Len(stk) - 1))

(* What happens when CancelledError reaches the frames of stk, innermost   *)
(* first: each re-raises, so only the releases are observable.             *)
RECURSIVE UnwindCancelled(_)
UnwindCancelled(stk) ==
    IF stk = <<>> THEN <<>>
    ELSE <<Mark("release", stk[Len(stk)].sid)>>
         \o UnwindCancelled(SubSeq(stk, 1, Len(stk) - 1))

----------------------------------------------------------------------------
(* The match statement of iterate_stream, one action per case.             *)

(* case ResponseCreatedEvent() *)
OnResponseCreated ==
    /\ Running /\ Top.pc = "drain" /\ ~Top.started
    /\ stack' = SetTop([Top EXCEPT !.started = TRUE, !.response_id = Top.sid])
    /\ trace' = Append(trace, Up("created", "", Top.sid, "", ""))
    /\ UNCHANGED <<status, show, open, nstreams, nevents, ncalls, submitted>>
    /\ UNCHANGED cfgvars

(* An ItemStarted that anchors the item whatever its type. *)
OnOutputItemAddedAnchoringAll(kind, id) ==
    /\ MoreEvents
    /\ nevents' = nevents + 1
    /\ stack' = SetTop([Top EXCEPT !.current_item_id = id])
    /\ trace' = Append(trace, Up("item_added", id, Top.sid, kind, ""))
                \o (CASE kind \in {"message", "output_text"} ->
                           <<Down("messageCreated", id, Top.sid, "assistantMessage")>>
                      [] kind \in {"function_call", "mcp_call"} ->
                           <<Down("toolCallCreated", id, Top.sid,
                                  IF show THEN "Calling tool...\n" ELSE "Calling tool...")>>
                      [] OTHER -> <<>>)
    /\ UNCHANGED <<status, show, open, nstreams, ncalls, submitted>>
    /\ UNCHANGED cfgvars

(* case ResponseOutputItemAddedEvent(): message and output_text items,     *)
(* function_call and mcp_call items; the other types (reasoning) are       *)
(* skipped.                                                                *)
OnOutputItemAdded(kind, id) ==
    /\ MoreEvents
    /\ nevents' = nevents + 1
    /\ stack' = SetTop([Top EXCEPT !.current_item_id =
                            IF kind \in {"message", "output_text", "function_call", "mcp_call"}
                            THEN id ELSE @])
    /\ trace' = Append(trace, Up("item_added", id, Top.sid, kind, ""))
                \o (CASE kind \in {"message", "output_text"} ->
                           <<Down("messageCreated", id, Top.sid, "assistantMessage")>>
                      [] kind \in {"function_call", "mcp_call"} ->
                           <<Down("toolCallCreated", id, Top.sid,
                                  IF show THEN "Calling tool...\n" ELSE "Calling tool...")>>
                      [] OTHER -> <<>>)
    /\ UNCHANGED <<status, show, open, nstreams, ncalls, submitted>>
    /\ UNCHANGED cfgvars

(* A text delta yielded whether or not an item is current. *)
OnTextDeltaUnguarded(delta) ==
    /\ MoreEvents
    /\ nevents' = nevents + 1
    /\ trace' = Append(trace, Up("text_delta", "", Top.sid, delta, ""))
                \o (IF delta # ""
                    THEN <<Down("textDelta", Top.current_item_id, Top.sid, delta)>>
                    ELSE <<>>)
    /\ UNCHANGED <<status, show, stack, open, nstreams, ncalls, submitted>>
    /\ UNCHANGED cfgvars

(* A text delta yielded without the item it belongs to. *)
OnTextDeltaUnscoped(delta) ==
    /\ MoreEvents
    /\ nevents' = nevents + 1
    /\ trace' = Append(trace, Up("text_delta", "", Top.sid, delta, ""))
                \o (IF delta # "" /\ Top.current_item_id # ""
                    THEN <<Down("textDelta", "", Top.sid, delta)>>
                    ELSE <<>>)
    /\ UNCHANGED <<status, show, stack, open, nstreams, ncalls, submitted>>
    /\ UNCHANGED cfgvars

(* A text delta that overtakes what the event before it yielded. *)
OnTextDeltaOvertaking(delta) ==
    /\ MoreEvents
    /\ nevents' = nevents + 1
    /\ trace' = IF delta # "" /\ Top.current_item_id # ""
                THEN SubSeq(trace, 1, Len(trace) - 1)
                     \o <<ScopedDown("textDelta", Top.current_item_id, Top.sid, delta),
                          trace[Len(trace)],
                          Up("text_delta", "", Top.sid, delta, "")>>
                ELSE Append(trace, Up("text_delta", "", Top.sid, delta, ""))
    /\ UNCHANGED <<status, show, stack, open, nstreams, ncalls, submitted>>
    /\ UNCHANGED cfgvars

(* case ResponseTextDeltaEvent() | ResponseRefusalDeltaEvent() *)
OnTextDelta(delta) ==
    /\ MoreEvents
    /\ nevents' = nevents + 1
    /\ trace' = Append(trace, Up("text_delta", "", Top.sid, delta, ""))
                \o (IF delta # "" /\ Top.current_item_id # ""
                    THEN <<ScopedDown("textDelta", Top.current_item_id, Top.sid, delta)>>
                    ELSE <<>>)
    /\ UNCHANGED <<status, show, stack, open, nstreams, ncalls, submitted>>
    /\ UNCHANGED cfgvars

(* An arguments delta shown whatever the configuration says. *)
OnArgumentsDeltaAlways(id, delta) ==
    /\ MoreEvents
    /\ nevents' = nevents + 1
    /\ stack' = SetTop([Top EXCEPT !.current_item_id = id])
    /\ trace' = Append(trace, Up("args_delta", id, Top.sid, delta, ""))
                \o <<ScopedDown("toolDelta", id, Top.sid, delta)>>
    /\ UNCHANGED <<status, show, open, nstreams, ncalls, submitted>>
    /\ UNCHANGED cfgvars

(* case ResponseFunctionCallArgumentsDeltaEvent() | ResponseMcpCallArgumentsDeltaEvent() *)
OnArgumentsDelta(id, delta) ==
    /\ MoreEvents
    /\ nevents' = nevents + 1
    /\ stack' = SetTop([Top EXCEPT !.current_item_id = IF show THEN id ELSE @])
    /\ trace' = Append(trace, Up("args_delta", id, Top.sid, delta, ""))
                \o (IF show THEN <<ScopedDown("toolDelta", id, Top.sid, delta)>> ELSE <<>>)
    /\ UNCHANGED <<status, show, open, nstreams, ncalls, submitted>>
    /\ UNCHANGED cfgvars

(* case ResponseOutputItemDoneEvent() with item.type == "function_call":   *)
(* json.loads of the arguments, then FUNCTION_REGISTRY.call is awaited.    *)
OnFunctionCallDone(id, v) ==
    /\ MoreEvents
    /\ ncalls < MaxCalls
    /\ nevents' = nevents + 1
    /\ ncalls' = ncalls + 1
    /\ LET parsed == JsonLoads(v.args)
           up == Up("item_done", id, Top.sid, v.name,
                    IF parsed.ok THEN "json" ELSE "notjson")
       IN IF parsed.ok
          THEN /\ stack' = SetTop([Top EXCEPT !.current_item_id = id, !.pc = "dispatch",
                                   !.call = [item |-> id, name |-> v.name,
                                             args |-> parsed.val]])
               /\ trace' = trace \o <<up, Entry("dispatch", v.name, id, Top.sid, "", "", 0)>>
               /\ UNCHANGED <<status, open>>
          ELSE Except(<<up>>)
    /\ UNCHANGED <<show, nstreams, submitted>>
    /\ UNCHANGED cfgvars

(* An output that keeps the fields whose value is None. *)
FunctionCallOutputKeepNone(result) ==
    JsonDumps(Obj(<<<<"ok", result.ok>>, <<"payload", result.payload>>,
                    <<"render_hint", result.render_hint>>>>))

(* The output string of the function_call_output item. *)
FunctionCallOutput(result) == JsonDumps(ModelDump(result))

(* The tool output fragment: the template of the tool when it has one, the *)
(* generic dump otherwise, the raw JSON when rendering raised.             *)
ToolOutputFragment(name, renderFails) ==
    IF renderFails THEN "fallback"
    ELSE IF name \in TEMPLATE_REGISTRY THEN "template" ELSE "generic"

(* What the fragment shows: every rendering is a rendering of the result,  *)
(* so a result with ok = false shows as an error.                          *)
Shown(result) == IF result.ok = Lit("true") THEN "result" ELSE "error"

(* A rendering whose fallback is yielded after the failed rendering. *)
ToolReturnedAddingFallback(raised, renderFails) ==
    /\ Running /\ Top.pc = "dispatch"
    /\ raised => Top.call.name \in Registered
    /\ renderFails => Top.call.name \in TEMPLATE_REGISTRY
    /\ stack' = SetTop([Top EXCEPT !.pc = "list",
                                   !.result = RegistryCall(Top.call.name, raised)])
    /\ trace' = trace
           \o (IF renderFails
               THEN <<Entry("down", "toolOutput", "", Top.sid, "template",
                            Shown(RegistryCall(Top.call.name, raised)), 0)>>
               ELSE <<>>)
           \o <<Entry("down", "toolOutput", "", Top.sid,
                      ToolOutputFragment(Top.call.name, renderFails),
                      Shown(RegistryCall(Top.call.name, raised)), 0)>>
    /\ UNCHANGED <<status, show, open, nstreams, nevents, ncalls, submitted>>
    /\ UNCHANGED cfgvars

(* FUNCTION_REGISTRY.call has returned: the output is rendered and         *)
(* yielded, then client.conversations.items.list is awaited.               *)
ToolReturned(raised, renderFails) ==
    /\ Running /\ Top.pc = "dispatch"
    /\ raised => Top.call.name \in Registered
    /\ renderFails => Top.call.name \in TEMPLATE_REGISTRY
    /\ stack' = SetTop([Top EXCEPT !.pc = "list",
                                   !.result = RegistryCall(Top.call.name, raised)])
    /\ trace' = Append(trace, Entry("down", "toolOutput", "", Top.sid,
                                    ToolOutputFragment(Top.call.name, renderFails),
                                    Shown(RegistryCall(Top.call.name, raised)), 0))
    /\ UNCHANGED <<status, show, open, nstreams, nevents, ncalls, submitted>>
    /\ UNCHANGED cfgvars

(* items.list has returned: when the call item is among the items, its     *)
(* output is sent with conversations.items.create; otherwise the frame     *)
(* goes on draining.                                                       *)
ListReturned(found) ==
    /\ Running /\ Top.pc = "list"
    /\ stack' = SetTop([Top EXCEPT !.pc = IF found THEN "submit" ELSE "drain"])
    /\ UNCHANGED <<status, show, open, nstreams, nevents, ncalls, trace, submitted>>
    /\ UNCHANGED cfgvars

(* conversations.items.create has returned; responses.create is awaited. *)
SubmitReturned ==
    /\ Running /\ Top.pc = "submit"
    /\ submitted' = Append(submitted,
                           [call_id |-> Top.current_item_id,
                            output |-> FunctionCallOutput(Top.result),
                            result |-> Top.result])
    /\ trace' = Append(trace, Entry("submit", Top.call.name, Top.current_item_id, Top.sid, "", "", 0))
    /\ stack' = SetTop([Top EXCEPT !.pc = "open"])
    /\ UNCHANGED <<status, show, open, nstreams, nevents, ncalls>>
    /\ UNCHANGED cfgvars

(* A resumption that reads the stored configuration again. *)
OpenReturnedRereading ==
    /\ Running /\ Top.pc = "open"
    /\ nstreams' = nstreams + 1
    /\ open' = open \cup {nstreams + 1}
    /\ trace' = Append(trace, Entry("open", "", "", nstreams + 1, "", "", Top.sid))
    /\ stack' = Append(SetTop([Top EXCEPT !.pc = "nested"]),
                       Frame(nstreams + 1, Top.response_id))
    /\ requests' = Append(requests, Request(ReadConfig(stored)))
    /\ UNCHANGED <<status, show, nevents, ncalls, submitted>>
    /\ UNCHANGED <<filevars, savevars, vsvars, pathvars, delvars, stored, closure>>

(* responses.create has returned next_stream; iterate_stream(next_stream,  *)
(* response_id) is entered and the frame waits for what it yields.         *)
OpenReturned ==
    /\ Running /\ Top.pc = "open"
    /\ nstreams' = nstreams + 1
    /\ open' = open \cup {nstreams + 1}
    /\ trace' = Append(trace, Entry("open", "", "", nstreams + 1, "", "", Top.sid))
    /\ stack' = Append(SetTop([Top EXCEPT !.pc = "nested"]),
                       Frame(nstreams + 1, Top.response_id))
    /\ requests' = Append(requests, Request(closure))
    /\ UNCHANGED <<status, show, nevents, ncalls, submitted>>
    /\ UNCHANGED <<filevars, savevars, vsvars, pathvars, delvars, stored, closure>>

(* An awaited call of the frame raises an exception other than             *)
(* CancelledError: the next upstream event, items.list, items.create or    *)
(* responses.create.                                                       *)
AwaitRaises ==
    /\ Running /\ Top.pc \in {"drain", "list", "submit", "open"} /\ ~Top.ended
    /\ Except(<<>>)
    /\ UNCHANGED <<show, nstreams, nevents, ncalls, submitted>>
    /\ UNCHANGED cfgvars

(* case ResponseCompletedEvent() *)
OnResponseCompleted ==
    /\ Draining
    /\ stack' = SetTop([Top EXCEPT !.ended = TRUE])
    /\ trace' = trace \o << Up("completed", "", Top.sid, "", ""),
                            Down("runCompleted", "", Top.sid,
                                 "<span hx-swap-oob=\"outerHTML:.dots\"></span>"),
                            Down("endStream", "", Top.sid, "DONE") >>
    /\ UNCHANGED <<status, show, open, nstreams, nevents, ncalls, submitted>>
    /\ UNCHANGED cfgvars

(* case _: the response.failed event is none of the matched classes. *)
OnResponseFailed ==
    /\ Draining
    /\ stack' = SetTop([Top EXCEPT !.ended = TRUE])
    /\ trace' = Append(trace, Up("failed", "", Top.sid, "", ""))
    /\ UNCHANGED <<status, show, open, nstreams, nevents, ncalls, submitted>>
    /\ UNCHANGED cfgvars

(* The sub-stream is exhausted after its terminal event: the async for     *)
(* ends, the async with releases the stream and the generator returns.     *)
StreamExhausted ==
    /\ Running /\ Top.pc = "drain" /\ Top.ended
    /\ trace' = Append(trace, Mark("release", Top.sid))
    /\ open' = open \ {Top.sid}
    /\ stack' = Popped
    /\ status' = IF Len(stack) = 1 THEN "done" ELSE "running"
    /\ UNCHANGED <<show, nstreams, nevents, ncalls, submitted>>
    /\ UNCHANGED cfgvars

(* The client disconnects: CancelledError is raised at the suspension      *)
(* point of the innermost frame and re-raised by every frame.              *)
Cancel ==
    /\ status \in {"init", "running"}
    /\ status' = "cancelled"
    /\ trace' = Append(trace, Mark("cancel", 0)) \o UnwindCancelled(stack)
    /\ open' = open \ ReleasedOnUnwind(stack)
    /\ stack' = <<>>
    /\ UNCHANGED <<show, nstreams, nevents, ncalls, submitted>>
    /\ UNCHANGED cfgvars

Deltas == {"Hello"}
(* What the awaited collaborators do in a turn of this specification: the  *)
(* handler of a registered tool returns and its template renders.          *)
HandlerRaises == {FALSE}
RenderFails == {FALSE}
ArgFragments == {"{\"location\":"}

Next ==
    \/ OpenInitial
    \/ OpenInitialFails
    \/ OnResponseCreated
    \/ \E kind \in ItemKinds, id \in ItemIds : OnOutputItemAdded(kind, id)
    \/ \E delta \in Deltas : OnTextDelta(delta)
    \/ \E id \in ItemIds, delta \in ArgFragments : OnArgumentsDelta(id, delta)
    \/ \E id \in ItemIds, v \in CallVariants : OnFunctionCallDone(id, v)
    \/ \E raised \in HandlerRaises, renderFails \in RenderFails : ToolReturned(raised, renderFails)
    \/ \E found \in BOOLEAN : ListReturned(found)
    \/ SubmitReturned
    \/ OpenReturned
    \/ AwaitRaises
    \/ OnResponseCompleted
    \/ OnResponseFailed
    \/ StreamExhausted
    \/ Cancel

Spec == Init /\ [][Next]_vars

----------------------------------------------------------------------------
(* Turns with annotations, failing handlers and failing templates.         *)

AnnotationTypes == {"file_citation", "container_file_citation", "url_citation"}

(* The route names of routers/files.py: a route is named after its        *)
(* function.                                                               *)
FileRoutes ==
    {"list_files", "upload_file", "delete_file", "download_assistant_file",
     "download_container_file", "get_assistant_image_content"}

(* files_router.url_path_for(name, ...) raises NoMatchFound for a name     *)
(* that is not a route's.                                                  *)
NoMatchFound(name) == name \notin FileRoutes

(* An annotation handler that raises for the types it does not know. *)
OnAnnotationAddedStrict(type, lookupRaises) ==
    /\ MoreEvents
    /\ lookupRaises => (type = "container_file_citation" /\ Top.current_item_id # "")
    /\ nevents' = nevents + 1
    /\ LET up == Up("annotation", "", Top.sid, type,
                    IF lookupRaises THEN "lookup_failed" ELSE "")
       IN IF lookupRaises \/ type \notin {"file_citation", "container_file_citation"}
          THEN Except(<<up>>)
          ELSE /\ trace' = Append(trace, up)
               /\ UNCHANGED <<status, stack, open>>
    /\ UNCHANGED <<show, nstreams, ncalls, submitted>>
    /\ UNCHANGED cfgvars

(* case ResponseOutputTextAnnotationAddedEvent(), taken when an item is    *)
(* current.  file_citation: the link is built with                         *)
(* url_path_for("download_stored_file", ...) and yielded as a textDelta.   *)
(* container_file_citation: client.containers.files.retrieve is awaited,   *)
(* the link built with url_path_for("download_container_file", ...) and    *)
(* yielded as a textReplacement.  An exception of either leaves the match  *)
(* statement.  Any other type is logged.                                   *)
OnAnnotationAdded(type, lookupRaises) ==
    /\ MoreEvents
    /\ lookupRaises => (type = "container_file_citation" /\ Top.current_item_id # "")
    /\ nevents' = nevents + 1
    /\ LET up == Up("annotation", "", Top.sid, type,
                    IF lookupRaises THEN "lookup_failed" ELSE "")
           raises ==
               /\ Top.current_item_id # ""
               /\ \/ type = "file_citation" /\ NoMatchFound("download_stored_file")
                  \/ type = "container_file_citation"
                       /\ (lookupRaises \/ NoMatchFound("download_container_file"))
       IN IF raises
          THEN Except(<<up>>)
          ELSE /\ trace' = Append(trace, up)
                     \o (IF Top.current_item_id = "" THEN <<>>
                         ELSE CASE type = "file_citation" ->
                                     <<ScopedDown("textDelta", Top.current_item_id, Top.sid,
                                            "citation")>>
                                [] type = "container_file_citation" ->
                                     <<ScopedDown("textReplacement", Top.current_item_id,
                                            Top.sid, "sandbox:path|url")>>
                                [] OTHER -> <<>>)
               /\ UNCHANGED <<status, stack, open>>
    /\ UNCHANGED <<show, nstreams, ncalls, submitted>>
    /\ UNCHANGED cfgvars

(* Finished calls with well-formed arguments. *)
ToolCalls == { v \in CallVariants : JsonLoads(v.args).ok }

NextTools ==
    \/ OpenInitial
    \/ OnResponseCreated
    \/ \E kind \in ItemKinds : OnOutputItemAdded(kind, "a")
    \/ \E type \in AnnotationTypes, lookupRaises \in BOOLEAN :
          OnAnnotationAdded(type, lookupRaises)
    \/ \E v \in ToolCalls : OnFunctionCallDone("a", v)
    \/ \E raised \in BOOLEAN, renderFails \in BOOLEAN : ToolReturned(raised, renderFails)
    \/ \E found \in BOOLEAN : ListReturned(found)
    \/ SubmitReturned
    \/ OpenReturned
    \/ OnResponseCompleted
    \/ StreamExhausted

SpecTools == Init /\ [][NextTools]_vars

----------------------------------------------------------------------------
(* Turns without tool calls: items of every type and the events the match  *)
(* statement passes over.                                                  *)

AllItemKinds == {"message", "output_text", "function_call", "mcp_call", "reasoning"}

(* The events of the `continue` cases and of `case _` (logged only). *)
OtherEvents == {"response.in_progress", "response.output_text.done", "response.queued"}

(* An event outside the match statement's cases that ends the frame. *)
OnOtherEventFatal(type) ==
    /\ MoreEvents
    /\ nevents' = nevents + 1
    /\ Except(<<Up("other", "", Top.sid, type, "")>>)
    /\ UNCHANGED <<show, nstreams, ncalls, submitted>>
    /\ UNCHANGED cfgvars

(* case ResponseInProgressEvent() | ... : continue, and case _: the event  *)
(* is logged and the loop goes on to the next one.                         *)
OnOtherEvent(type) ==
    /\ MoreEvents
    /\ nevents' = nevents + 1
    /\ trace' = Append(trace, Up("other", "", Top.sid, type, ""))
    /\ UNCHANGED <<status, show, stack, open, nstreams, ncalls, submitted>>
    /\ UNCHANGED cfgvars

NextItems ==
    \/ OpenInitial
    \/ OnResponseCreated
    \/ \E kind \in AllItemKinds, id \in ItemIds : OnOutputItemAdded(kind, id)
    \/ \E delta \in Deltas : OnTextDelta(delta)
    \/ \E type \in OtherEvents : OnOtherEvent(type)
    \/ OnResponseCompleted
    \/ StreamExhausted

SpecItems == Init /\ [][NextItems]_vars

----------------------------------------------------------------------------
(* The turn without failures: items, text and argument deltas, and tool    *)
(* calls that resume the turn with a further sub-stream.                   *)
NextDetail ==
    \/ OpenInitial
    \/ OnResponseCreated
    \/ \E kind \in ItemKinds, id \in ItemIds : OnOutputItemAdded(kind, id)
    \/ \E delta \in Deltas : OnTextDelta(delta)
    \/ \E id \in ItemIds, delta \in ArgFragments : OnArgumentsDelta(id, delta)
    \/ OnAnnotationAdded("container_file_citation", FALSE)
    \/ \E v \in ToolCalls : OnFunctionCallDone("a", v)
    \/ ToolReturned(FALSE, FALSE)
    \/ \E found \in BOOLEAN : ListReturned(found)
    \/ SubmitReturned
    \/ OpenReturned
    \/ OnResponseCompleted
    \/ StreamExhausted

SpecDetail == Init /\ [][NextDetail]_vars

----------------------------------------------------------------------------
(* The configurations a save can store. *)
Configs ==
    { DefaultConfig,
      [DefaultConfig EXCEPT !.model = "gpt-4o", !.instructions = <<"Be brief.">>],
      [DefaultConfig EXCEPT !.enabled_tools = {}] }

(* Another request saves the configuration (POST /setup/config) while the  *)
(* turn is where it is.                                                    *)
ConfigSaved(config) ==
    /\ Running
    /\ config # stored
    /\ Cardinality({ i \in DOMAIN trace : trace[i].k = "config_saved" }) < MaxSaves
    /\ stored' = config
    /\ trace' = Append(trace, Mark("config_saved", 0))
    /\ UNCHANGED <<status, show, stack, open, nstreams, nevents, ncalls, submitted>>
    /\ UNCHANGED <<filevars, savevars, vsvars, pathvars, delvars, closure, requests>>

NextRequests ==
    \/ OpenInitial
    \/ OnResponseCreated
    \/ \E v \in ToolCalls : OnFunctionCallDone("a", v)
    \/ ToolReturned(FALSE, FALSE)
    \/ ListReturned(TRUE)
    \/ SubmitReturned
    \/ OpenReturned
    \/ OnResponseCompleted
    \/ StreamExhausted
    \/ \E config \in Configs : ConfigSaved(config)

SpecRequests == Init /\ [][NextRequests]_vars

----------------------------------------------------------------------------
(* One sub-stream of items, text deltas and argument deltas. *)
NextVisibility ==
    \/ OpenInitial
    \/ OnResponseCreated
    \/ \E kind \in ItemKinds, id \in ItemIds : OnOutputItemAdded(kind, id)
    \/ \E delta \in Deltas : OnTextDelta(delta)
    \/ \E id \in ItemIds, delta \in ArgFragments : OnArgumentsDelta(id, delta)
    \/ OnResponseCompleted
    \/ StreamExhausted

SpecVisibility == Init /\ [][NextVisibility]_vars

(* The name and target item of a downstream event. *)
Target(name, item) == [name |-> name, item |-> item]

(* current_item_id after the match statement has handled event e with      *)
(* show_tool_call_detail = detail.                                         *)
ItemAfter(e, cur, detail) ==
    CASE e.name = "item_added" ->
             IF e.data \in {"message", "output_text", "function_call", "mcp_call"}
                /\ (e.data \in {"function_call", "mcp_call"} \/ e.item # "")
             THEN e.item ELSE cur
      [] e.name = "args_delta" -> IF detail THEN e.item ELSE cur
      [] OTHER -> cur

(* What the match statement yields for event e with current item cur. *)
YieldedFor(e, cur, detail) ==
    CASE e.name = "item_added" ->
             IF e.data \in {"message", "output_text"} /\ e.item # ""
             THEN <<Target("messageCreated", e.item)>>
             ELSE IF e.data \in {"function_call", "mcp_call"}
                  THEN <<Target("toolCallCreated", e.item)>>
                  ELSE <<>>
      [] e.name = "text_delta" ->
             IF e.data # "" /\ cur # "" THEN <<Target("textDelta", cur)>> ELSE <<>>
      [] e.name = "args_delta" ->
             IF detail THEN <<Target("toolDelta", e.item)>> ELSE <<>>
      [] e.name = "completed" ->
             <<Target("runCompleted", ""), Target("endStream", "")>>
      [] OTHER -> <<>>

(* The downstream sequence of one activation of iterate_stream draining    *)
(* the events ups, starting with current item cur.                         *)
RECURSIVE Drained(_, _, _)
Drained(ups, cur, detail) ==
    IF ups = <<>> THEN <<>>
    ELSE YieldedFor(Head(ups), cur, detail)
         \o Drained(Tail(ups), ItemAfter(Head(ups), cur, detail), detail)

----------------------------------------------------------------------------
(* The .env file (utils/config.py, utils/env_file.py,                      *)
(* utils/create_assistant.py).  Text is a sequence of tokens: a variable   *)
(* name, "=", a piece of a value, a space, "\r" or "\n".                   *)

MaxWrites == 3

(* No turn is running. *)
TurnIdle ==
    /\ ExtIdle
    /\ status = "init"
    /\ show = FALSE
    /\ stack = <<>>
    /\ open = {}
    /\ nstreams = 0
    /\ nevents = 0
    /\ ncalls = 0
    /\ trace = <<>>
    /\ submitted = <<>>

(* file.readlines(): the lines of the text, each with its "\n"; the last   *)
(* line has none when the text does not end with one.                      *)
RECURSIVE ReadLines(_)
ReadLines(text) ==
    IF text = <<>> THEN <<>>
    ELSE LET ends == { i \in DOMAIN text : text[i] = "\n" } IN
         IF ends = {} THEN <<text>>
         ELSE LET e == CHOOSE i \in ends : \A j \in ends : i <= j
              IN <<SubSeq(text, 1, e)>> \o ReadLines(SubSeq(text, e + 1, Len(text)))

(* line.startswith(prefix) *)
StartsWith(line, prefix) ==
    Len(line) >= Len(prefix) /\ SubSeq(line, 1, Len(prefix)) = prefix

(* line.endswith("\n") *)
EndsWithNewline(line) == line # <<>> /\ line[Len(line)] = "\n"

(* "".join(lines) *)
RECURSIVE Join(_)
Join(lines) == IF lines = <<>> THEN <<>> ELSE Head(lines) \o Join(Tail(lines))

(* The lines read from an existing .env, without those of var_name. *)
KeptLines(file, var_name) ==
    IF file.exists
    THEN SelectSeq(ReadLines(file.text), LAMBDA line : ~StartsWith(line, <<var_name, "=">>))
    ELSE <<>>

(* str(var_value).replace("\r", "").replace("\n", "") *)
Sanitized(var_value) == SelectSeq(var_value, LAMBDA c : c \notin {"\r", "\n"})

(* update_env_file of utils/create_assistant.py: the kept lines are        *)
(* written back as they were read, then the line of the variable.          *)
update_env_file_create_assistant(file, var_name, var_value) ==
    File(Join(KeptLines(file, var_name)) \o <<var_name, "=">> \o var_value \o <<"\n">>)

(* update_env_file of utils/config.py and utils/env_file.py: the value is  *)
(* sanitized and every kept line is made to end with a newline.            *)
update_env_file(file, var_name, var_value) ==
    LET lines == KeptLines(file, var_name)
        normalized_lines == [i \in DOMAIN lines |->
                               IF EndsWithNewline(lines[i]) THEN lines[i]
                               ELSE Append(lines[i], "\n")]
        joined == Join(normalized_lines)
        content == IF joined # <<>> /\ ~EndsWithNewline(joined)
                   THEN Append(joined, "\n") ELSE joined
    IN File(content \o <<var_name, "=">> \o Sanitized(var_value) \o <<"\n">>)

Impls == {"config", "env_file", "create_assistant"}

VarNames == {"RESPONSES_MODEL", "ENABLED_TOOLS"}

VarValues == {<<"gpt-4o">>, <<"o3">>}

(* The .env files a first call may find: none, an empty one, one whose     *)
(* last line has no newline, one that holds a variable twice.              *)
EnvFiles ==
    { NoFile,
      File(<<>>),
      File(<<"ENABLED_TOOLS", "=", "mcp", "\n">>),
      File(<<"ENABLED_TOOLS", "=", "mcp">>),
      File(<<"RESPONSES_MODEL", "=", "o1", "\n", "RESPONSES_MODEL", "=", "o1", "\n">>) }

InitEnv ==
    /\ TurnIdle
    /\ impl \in Impls
    /\ env \in EnvFiles
    /\ written = <<>>
    /\ registry = NoFile
    /\ generated = NoEntries
    /\ readback = NoEntries
    /\ environ = Unset
    /\ setup_message = NoMessage
    /\ environ_tools = Unset
    /\ current_tools = NoTools

(* One call update_env_file(var_name, var_value) of module impl. *)
UpdateEnvFile(var_name, var_value) ==
    /\ Len(written) < MaxWrites
    /\ env' = IF impl = "create_assistant"
              THEN update_env_file_create_assistant(env, var_name, var_value)
              ELSE update_env_file(env, var_name, var_value)
    /\ written' = Append(written, [name |-> var_name, value |-> var_value])
    /\ UNCHANGED <<impl, registry, generated, readback, environ, setup_message,
                   environ_tools, current_tools>>
    /\ UNCHANGED <<turnvars, extvars>>

NextEnv == \E var_name \in VarNames, var_value \in VarValues : UpdateEnvFile(var_name, var_value)

SpecEnv == InitEnv /\ [][NextEnv]_vars

----------------------------------------------------------------------------
(* The tool registry file tool.config.json (utils/config.py,               *)
(* utils/registry.py).                                                     *)

MaxEntries == 3

(* A CustomFunction; template_path is <<>> for None. *)
CustomFunction(name, import_path, template_path) ==
    [name |-> name, import_path |-> import_path, template_path |-> template_path]

Functions ==
    { CustomFunction("get_weather", "utils.custom_functions", <<"weather.html">>),
      CustomFunction("get_weather", "utils.custom_functions", <<>>),
      CustomFunction("get_time", "utils.clock", <<>>) }

(* The lists of entries a caller may pass. *)
EntryLists == UNION { [1 .. n -> Functions] : n \in 0 .. MaxEntries }

(* model_dump_json of one CustomFunction and of the ToolConfig: the fields *)
(* in declaration order, None written as null.                             *)
CustomFunctionJson(e) ==
    Obj(<<<<"name", Str(e.name)>>, <<"import_path", Str(e.import_path)>>,
          <<"template_path",
            IF e.template_path = <<>> THEN Null ELSE Str(e.template_path[1])>>>>)

ToolConfigJson(entries) ==
    Obj(<<<<"mcp_servers", Arr(<<>>)>>,
          <<"custom_functions",
            Arr([i \in DOMAIN entries |-> CustomFunctionJson(entries[i])])>>>>)

(* Validation of one item of custom_functions: the three fields are        *)
(* required, name and import_path strings, template_path a string or null. *)
ValidCustomFunction(v) ==
    /\ v.t = "obj"
    /\ \A f \in {"name", "import_path", "template_path"} : Member(v, f) # <<>>
    /\ Member(v, "name")[1].t = "str"
    /\ Member(v, "import_path")[1].t = "str"
    /\ Member(v, "template_path")[1].t \in {"str", "null"}

ToCustomFunction(v) ==
    CustomFunction(Member(v, "name")[1].a, Member(v, "import_path")[1].a,
                   IF Member(v, "template_path")[1].t = "null" THEN <<>>
                   ELSE <<Member(v, "template_path")[1].a>>)

(* ToolConfig.model_validate_json(text): [ok, entries]; not ok stands for  *)
(* JSONDecodeError / ValidationError.                                      *)
model_validate_json(text) ==
    LET r == JsonLoads(text)
        bad == [ok |-> FALSE, entries |-> <<>>]
    IN IF ~r.ok \/ r.val.t # "obj" THEN bad
       ELSE IF Member(r.val, "mcp_servers") = <<>> \/ Member(r.val, "custom_functions") = <<>>
       THEN bad
       ELSE LET servers == Member(r.val, "mcp_servers")[1]
                functions == Member(r.val, "custom_functions")[1]
            IN IF servers.t # "arr" \/ functions.t # "arr" THEN bad
               ELSE IF \E i \in DOMAIN functions.o : ~ValidCustomFunction(functions.o[i])
               THEN bad
               ELSE [ok |-> TRUE,
                     entries |-> [i \in DOMAIN functions.o |->
                                    ToCustomFunction(functions.o[i])]]

(* generate_registry_file(entries): returns without writing when the file  *)
(* does not exist.                                                         *)
generate_registry_file(file, entries) ==
    IF ~file.exists THEN file
    ELSE File(JsonDumps(ToolConfigJson(entries)))

(* read_registry_entries(): [] when the file is missing or does not        *)
(* validate.                                                               *)
read_registry_entries(file) ==
    IF ~file.exists THEN <<>>
    ELSE LET tool_config == model_validate_json(file.text) IN
         IF tool_config.ok THEN tool_config.entries ELSE <<>>

(* The tool.config.json a first call may find: none, a generated one, a    *)
(* truncated one, an object without the fields of ToolConfig.              *)
RegistryFiles ==
    { NoFile,
      File(JsonDumps(ToolConfigJson(<<>>))),
      File(<<P("{")>>),
      File(JsonDumps(Obj(<<>>))) }

InitRegistry ==
    /\ TurnIdle
    /\ impl = "config"
    /\ env = NoFile
    /\ written = <<>>
    /\ registry \in RegistryFiles
    /\ generated = NoEntries
    /\ readback = NoEntries
    /\ environ = Unset
    /\ setup_message = NoMessage
    /\ environ_tools = Unset
    /\ current_tools = NoTools

GenerateRegistryFile(entries) ==
    /\ registry' = generate_registry_file(registry, entries)
    /\ generated' = [done |-> TRUE, entries |-> entries]
    /\ readback' = NoEntries
    /\ UNCHANGED <<impl, env, written, environ, setup_message, environ_tools, current_tools>>
    /\ UNCHANGED <<turnvars, extvars>>

ReadRegistryEntries ==
    /\ readback' = [done |-> TRUE, entries |-> read_registry_entries(registry)]
    /\ UNCHANGED <<impl, env, written, registry, generated, environ, setup_message,
                   environ_tools, current_tools>>
    /\ UNCHANGED <<turnvars, extvars>>

NextRegistry ==
    \/ \E entries \in EntryLists : GenerateRegistryFile(entries)
    \/ ReadRegistryEntries

SpecRegistry == InitRegistry /\ [][NextRegistry]_vars

----------------------------------------------------------------------------
(* The setup page (routers/setup.py): POST /setup/api-key writes the key   *)
(* to .env, GET /setup/ reloads .env into the environment and reports      *)
(* whether the key is missing.                                             *)

Whitespace == {" ", "\t", "\r", "\n"}

(* s.strip() *)
RECURSIVE Strip(_)
Strip(s) ==
    IF s = <<>> THEN s
    ELSE IF s[1] \in Whitespace THEN Strip(Tail(s))
    ELSE IF s[Len(s)] \in Whitespace THEN Strip(SubSeq(s, 1, Len(s) - 1))
    ELSE s

(* The value python-dotenv reads from the text after "=": surrounding      *)
(* whitespace dropped, then one pair of enclosing double quotes.           *)
DotenvValue(raw) ==
    LET v == Strip(raw) IN
    IF Len(v) >= 2 /\ v[1] = "\"" /\ v[Len(v)] = "\"" THEN SubSeq(v, 2, Len(v) - 1)
    ELSE v

(* The binding of key in the .env file: the last line for the key wins. *)
DotenvBinding(file, key) ==
    LET lines == SelectSeq(ReadLines(file.text),
                           LAMBDA line : StartsWith(line, <<key, "=">>))
    IN IF ~file.exists \/ lines = <<>> THEN Unset
       ELSE [set |-> TRUE,
             value |-> DotenvValue(SubSeq(lines[Len(lines)], 3, Len(lines[Len(lines)])))]

(* load_dotenv(override=True) as far as key goes: a binding of the file    *)
(* replaces the value the process had; without one the value stays.        *)
load_dotenv(environment, file, key) ==
    IF DotenvBinding(file, key).set THEN DotenvBinding(file, key) ELSE environment

(* A page that complains only when the variable is not set at all. *)
SetupMessageUnsetOnly(openai_api_key) ==
    IF ~openai_api_key.set THEN "OpenAI API key is missing." ELSE ""

(* setup_message of read_setup: `if not openai_api_key`. *)
SetupMessage(openai_api_key) ==
    IF ~openai_api_key.set \/ openai_api_key.value = <<>>
    THEN "OpenAI API key is missing." ELSE ""

(* What the process environment holds for the key when the server starts. *)
Environments == { Unset, [set |-> TRUE, value |-> <<>>], [set |-> TRUE, value |-> <<"sk-live">>] }

(* The .env files of the setup tests, no file, and a file without the key. *)
SetupEnvFiles ==
    { NoFile,
      File(<<"OPENAI_API_KEY", "=", "\"", "\"", "\n",
             "RESPONSES_MODEL", "=", "\"", "gpt-4o", "\"", "\n">>),
      File(<<"OPENAI_API_KEY", "=", "\"", "sk-test-fake-key-for-testing", "\"", "\n",
             "RESPONSES_MODEL", "=", "\"", "gpt-4o", "\"", "\n">>),
      File(<<"RESPONSES_MODEL", "=", "gpt-4o", "\n">>) }

(* ENABLED_TOOLS as .env may hold it after "=": the values of the tests'   *)
(* fixtures (none, two, all three tools) and a hand-edited list with       *)
(* blanks and an empty element.                                            *)
ToolsValues ==
    { <<"\"", "\"">>,
      <<"\"", "function", ",", "mcp", "\"">>,
      <<"\"", "file_search", ",", "function", ",", "mcp", "\"">>,
      <<" ", "file_search", " ", ",", " ", ",", "mcp", ",">> }

SetupEnvFilesWithTools ==
    SetupEnvFiles \cup
    { File(f.text \o <<"ENABLED_TOOLS", "=">> \o v \o <<"\n">>) :
        f \in SetupEnvFiles \ {NoFile}, v \in ToolsValues }

(* s.split(sep): the pieces of s between the separators, empty ones kept. *)
RECURSIVE Split(_, _)
Split(s, sep) ==
    LET at == { i \in DOMAIN s : s[i] = sep } IN
    IF at = {} THEN <<s>>
    ELSE LET i == CHOOSE a \in at : \A b \in at : a <= b
         IN <<SubSeq(s, 1, i - 1)>> \o Split(SubSeq(s, i + 1, Len(s)), sep)

(* A list that keeps the elements as they stand between the commas. *)
CurrentToolsUntrimmed(enabled_tools_csv) ==
    SelectSeq(Split(enabled_tools_csv, ","), LAMBDA t : t # <<>>)

(* [t.strip() for t in enabled_tools_csv.split(",") if t.strip()] *)
CurrentTools(enabled_tools_csv) ==
    LET pieces == Split(enabled_tools_csv, ",")
        kept == SelectSeq(pieces, LAMBDA t : Strip(t) # <<>>)
    IN [i \in DOMAIN kept |-> Strip(kept[i])]

(* os.getenv(name, "") *)
GetenvOrEmpty(variable) == IF variable.set THEN variable.value ELSE <<>>

(* The api_key form values posted. *)
ApiKeys == { <<"sk-new">>, <<" ", "sk-new", "\r", "\n">>, <<" ">> }

InitSetup ==
    /\ TurnIdle
    /\ impl = "config"
    /\ env \in SetupEnvFilesWithTools
    /\ written = <<>>
    /\ registry = NoFile
    /\ generated = NoEntries
    /\ readback = NoEntries
    /\ environ \in Environments
    /\ setup_message = NoMessage
    /\ environ_tools \in {Unset, [set |-> TRUE, value |-> <<"function">>]}
    /\ current_tools = NoTools

(* POST /setup/api-key *)
set_openai_api_key(api_key) ==
    /\ Len(written) < MaxWrites
    /\ LET safe_key == Sanitized(Strip(api_key)) IN
       /\ env' = update_env_file(env, "OPENAI_API_KEY", safe_key)
       /\ written' = Append(written, [name |-> "OPENAI_API_KEY", value |-> safe_key])
    /\ UNCHANGED <<impl, registry, generated, readback, environ, setup_message,
                   environ_tools, current_tools>>
    /\ UNCHANGED <<turnvars, extvars>>

(* GET /setup/ *)
read_setup ==
    /\ environ' = load_dotenv(environ, env, "OPENAI_API_KEY")
    /\ setup_message' = [done |-> TRUE, text |-> SetupMessage(environ')]
    /\ environ_tools' = load_dotenv(environ_tools, env, "ENABLED_TOOLS")
    /\ current_tools' = [done |-> TRUE,
                         tools |-> CurrentTools(GetenvOrEmpty(environ_tools'))]
    /\ UNCHANGED <<impl, env, written, registry, generated, readback>>
    /\ UNCHANGED <<turnvars, extvars>>

NextSetup ==
    \/ \E api_key \in ApiKeys : set_openai_api_key(api_key)
    \/ read_setup

SpecSetup == InitSetup /\ [][NextSetup]_vars

----------------------------------------------------------------------------
(* POST /setup/config, the standard save. *)

MaxPosts == 2

(* ",".join(tool_types) *)
RECURSIVE JoinCsv(_)
JoinCsv(tool_types) ==
    IF tool_types = <<>> THEN <<>>
    ELSE IF Len(tool_types) = 1 THEN <<tool_types[1]>>
    ELSE <<tool_types[1], ",">> \o JoinCsv(Tail(tool_types))

(* s.lower() on the values of the model. *)
Lower(s) == CASE s = "TRUE" -> "true" [] s = "On" -> "on" [] OTHER -> s

(* "true" if (show_tool_call_detail or "").lower() in {"1", "true", "yes", *)
(* "on"} else "false"; the form value is <<>> when absent.                 *)
ShowDetailValue(show_tool_call_detail) ==
    IF show_tool_call_detail # <<>>
       /\ Lower(show_tool_call_detail[1]) \in {"1", "true", "yes", "on"}
    THEN "true" ELSE "false"

(* The four update_env_file calls of the standard save, in order. *)
SaveCalls(model, instructions, tool_types, show_tool_call_detail) ==
    << [name |-> "RESPONSES_MODEL", value |-> model[1]],
       [name |-> "RESPONSES_INSTRUCTIONS", value |-> instructions[1]],
       [name |-> "ENABLED_TOOLS", value |-> JoinCsv(tool_types)],
       [name |-> "SHOW_TOOL_CALL_DETAIL",
        value |-> <<ShowDetailValue(show_tool_call_detail)>>] >>

(* The .env file after the calls have been made on file, one by one. *)
RECURSIVE AfterCalls(_, _)
AfterCalls(file, calls) ==
    IF calls = <<>> THEN file
    ELSE AfterCalls(update_env_file(file, Head(calls).name, Head(calls).value), Tail(calls))

(* The form values and the status of the redirect of one request. *)
Post(model, instructions, outcome) ==
    [model |-> model, instructions |-> instructions, status |-> outcome]

(* A save that writes the model before it looks at the instructions. *)
save_app_config_unchecked(model, instructions, tool_types, show_tool_call_detail) ==
    /\ Len(posts) < MaxPosts
    /\ LET calls == IF model = <<>> THEN <<>>
                    ELSE IF instructions = <<>>
                         THEN << [name |-> "RESPONSES_MODEL", value |-> model[1]] >>
                         ELSE SaveCalls(model, instructions, tool_types,
                                        show_tool_call_detail)
       IN /\ env' = AfterCalls(env, calls)
          /\ written' = written \o calls
          /\ posts' = Append(posts, Post(model, instructions,
                                         IF model = <<>> \/ instructions = <<>>
                                         THEN "error" ELSE "success"))
    /\ UNCHANGED <<impl, registry, generated, readback, environ, setup_message,
                   environ_tools, current_tools>>
    /\ UNCHANGED <<turnvars, reqvars, vsvars, pathvars, delvars>>

(* save_app_config with an action other than regenerate_registry: model    *)
(* and instructions are <<>> when the form has none.                       *)
save_app_config(model, instructions, tool_types, show_tool_call_detail) ==
    /\ Len(posts) < MaxPosts
    /\ IF model = <<>> \/ instructions = <<>>
       THEN /\ posts' = Append(posts, Post(model, instructions, "error"))
            /\ UNCHANGED <<env, written>>
       ELSE LET calls == SaveCalls(model, instructions, tool_types, show_tool_call_detail)
            IN /\ env' = AfterCalls(env, calls)
               /\ written' = written \o calls
               /\ posts' = Append(posts, Post(model, instructions, "success"))
    /\ UNCHANGED <<impl, registry, generated, readback, environ, setup_message,
                   environ_tools, current_tools>>
    /\ UNCHANGED <<turnvars, reqvars, vsvars, pathvars, delvars>>

FormModels == {<<>>, << <<"gpt-4o">> >>}

FormInstructions == {<<>>, << <<>> >>, << <<"Be", " ", "brief.", "\n", "Thanks.">> >>}

FormToolTypes == {<<>>, <<"function", "mcp">>}

FormShowDetail == {<<>>, <<"On">>, <<"no">>}

InitSave ==
    /\ TurnIdle
    /\ impl = "config"
    /\ env \in EnvFiles
    /\ written = <<>>
    /\ registry = NoFile
    /\ generated = NoEntries
    /\ readback = NoEntries
    /\ environ = Unset
    /\ setup_message = NoMessage
    /\ environ_tools = Unset
    /\ current_tools = NoTools

NextSave ==
    \E model \in FormModels, instructions \in FormInstructions,
       tool_types \in FormToolTypes, show_tool_call_detail \in FormShowDetail :
        save_app_config(model, instructions, tool_types, show_tool_call_detail)

SpecSave == InitSave /\ [][NextSave]_vars

----------------------------------------------------------------------------
(* get_or_create_vector_store, as the file routes call it. *)

MaxFileRequests == 3

(* The id upstream gives the n-th vector store it creates. *)
VectorStoreId(n) == <<"vs_1", "vs_2", "vs_3", "vs_4", "vs_5">>[n]

FileRoutes_get_or_create == {"list_files", "upload_file", "delete_file"}

(* A request of route has called get_or_create_vector_store:               *)
(* os.getenv("VECTOR_STORE_ID") is returned when it has a value, otherwise *)
(* client.vector_stores.create is awaited.                                 *)
GetOrCreateCalled(route) ==
    /\ Len(vs_calls) < MaxFileRequests
    /\ vs_calls' = Append(vs_calls,
                      IF environ_vs.set /\ environ_vs.value # <<>>
                      THEN [route |-> route, pc |-> "returned", id |-> environ_vs.value[1]]
                      ELSE [route |-> route, pc |-> "creating", id |-> ""])
    /\ UNCHANGED <<environ_vs, vector_stores>>
    /\ UNCHANGED <<turnvars, filevars, reqvars, savevars, pathvars, delvars>>

(* vector_stores.create has returned to call i: the id is written to .env  *)
(* with update_env_file of utils/create_assistant.py and returned.         *)
VectorStoreCreated(i) ==
    /\ i \in DOMAIN vs_calls /\ vs_calls[i].pc = "creating"
    /\ LET id == VectorStoreId(Len(vector_stores) + 1)
       IN /\ vector_stores' = Append(vector_stores, id)
          /\ env' = update_env_file_create_assistant(env, "VECTOR_STORE_ID", <<id>>)
          /\ vs_calls' = [vs_calls EXCEPT ![i] = [@ EXCEPT !.pc = "returned", !.id = id]]
    /\ UNCHANGED <<impl, written, registry, generated, readback, environ, setup_message,
                   environ_tools, current_tools, environ_vs>>
    /\ UNCHANGED <<turnvars, reqvars, savevars, pathvars, delvars>>

InitVectorStore ==
    /\ TurnIdle
    /\ impl = "create_assistant"
    /\ env \in {NoFile, File(<<>>), File(<<"ENABLED_TOOLS", "=", "mcp", "\n">>)}
    /\ written = <<>>
    /\ registry = NoFile
    /\ generated = NoEntries
    /\ readback = NoEntries
    /\ environ = Unset
    /\ setup_message = NoMessage
    /\ environ_tools = Unset
    /\ current_tools = NoTools

NextVectorStore ==
    \/ \E route \in FileRoutes_get_or_create : GetOrCreateCalled(route)
    \/ \E i \in 1 .. MaxFileRequests : VectorStoreCreated(i)

SpecVectorStore == InitVectorStore /\ [][NextVectorStore]_vars

----------------------------------------------------------------------------
(* retrieve_file and delete_local_file.  A path is a sequence of tokens:   *)
(* "/" and pieces of names, so that a prefix of the sequence is a prefix   *)
(* of the string.                                                          *)

MaxServed == 2

(* The working directory of the process. *)
Cwd == <<"/", "app">>

upload_dir == <<"uploads">>

(* path.split("/") *)
RECURSIVE SplitPath(_)
SplitPath(path) ==
    LET seps == { i \in DOMAIN path : path[i] = "/" } IN
    IF seps = {} THEN <<path>>
    ELSE LET e == CHOOSE i \in seps : \A k \in seps : i <= k
         IN <<SubSeq(path, 1, e - 1)>> \o SplitPath(SubSeq(path, e + 1, Len(path)))

(* os.path.join(a, b): b alone when it is absolute. *)
PathJoin(a, b) == IF b # <<>> /\ b[1] = "/" THEN b ELSE a \o <<"/">> \o b

(* os.path.normpath on the components of an absolute path: empty and "."   *)
(* components are dropped, ".." drops the component before it.             *)
RECURSIVE Normalized(_, _)
Normalized(components, kept) ==
    IF components = <<>> THEN kept
    ELSE LET c == Head(components) IN
         Normalized(Tail(components),
                    IF c = <<>> \/ c = <<".">> THEN kept
                    ELSE IF c = <<"..">>
                         THEN (IF kept = <<>> THEN kept
                               ELSE SubSeq(kept, 1, Len(kept) - 1))
                         ELSE Append(kept, c))

RECURSIVE Slashed(_)
Slashed(components) ==
    IF components = <<>> THEN <<>>
    ELSE <<"/">> \o Head(components) \o Slashed(Tail(components))

(* os.path.abspath(path) *)
abspath(path) ==
    LET absolute == IF path # <<>> /\ path[1] = "/" THEN path
                    ELSE Cwd \o <<"/">> \o path
        kept == Normalized(SplitPath(absolute), <<>>)
    IN IF kept = <<>> THEN <<"/">> ELSE Slashed(kept)

(* os.path.abspath(file_path).startswith(os.path.abspath(upload_dir)) *)
PassesCheck(file_path) == StartsWith(abspath(file_path), abspath(upload_dir))

(* retrieve_file(file_name): 404 when the file does not exist, 403 when    *)
(* the check fails, the file otherwise.                                    *)
retrieve_file(file_name) ==
    /\ Len(served) < MaxServed
    /\ LET file_path == PathJoin(upload_dir, file_name)
           outcome == IF abspath(file_path) \notin disk THEN "404"
                      ELSE IF ~PassesCheck(file_path) THEN "403" ELSE "200"
       IN served' = Append(served, [op |-> "retrieve", file_name |-> file_name,
                                    existed |-> abspath(file_path) \in disk,
                                    outcome |-> outcome])
    /\ UNCHANGED disk
    /\ UNCHANGED <<turnvars, filevars, reqvars, savevars, vsvars, delvars>>

(* delete_local_file(file_name): 403 when the check fails; otherwise the   *)
(* file is removed when it exists.                                         *)
delete_local_file(file_name) ==
    /\ Len(served) < MaxServed
    /\ LET file_path == PathJoin(upload_dir, file_name)
           outcome == IF ~PassesCheck(file_path) THEN "403"
                      ELSE IF abspath(file_path) \in disk THEN "removed" ELSE "not_found"
       IN /\ served' = Append(served, [op |-> "delete", file_name |-> file_name,
                                       existed |-> abspath(file_path) \in disk,
                                       outcome |-> outcome])
          /\ disk' = IF outcome = "removed" THEN disk \ {abspath(file_path)} ELSE disk
    /\ UNCHANGED <<turnvars, filevars, reqvars, savevars, vsvars, delvars>>

(* File names a request may carry. *)
FileNames ==
    { <<"report.txt">>,
      <<"missing.txt">>,
      <<".", "/", "report.txt">>,
      <<"..", "/", "secret.txt">>,
      <<"..", "/", "nothing.txt">>,
      <<"..", "/", "uploads", "_old", "/", "secret.txt">>,
      <<"/", "etc", "/", "passwd">> }

(* The files that exist when the first request arrives. *)
InitialDisk ==
    { abspath(<<"uploads", "/", "report.txt">>),
      abspath(<<"secret.txt">>),
      abspath(<<"uploads", "_old", "/", "secret.txt">>),
      abspath(<<"/", "etc", "/", "passwd">>) }

InitUploads ==
    /\ status = "init" /\ show = FALSE /\ stack = <<>> /\ open = {}
    /\ nstreams = 0 /\ nevents = 0 /\ ncalls = 0 /\ trace = <<>> /\ submitted = <<>>
    /\ RequestsIdle /\ posts = <<>> /\ VectorStoreIdle
    /\ disk = InitialDisk /\ served = <<>>
    /\ DeletionsIdle
    /\ impl = "config"
    /\ env = NoFile
    /\ written = <<>>
    /\ registry = NoFile
    /\ generated = NoEntries
    /\ readback = NoEntries
    /\ environ = Unset
    /\ setup_message = NoMessage
    /\ environ_tools = Unset
    /\ current_tools = NoTools

NextUploads ==
    \E file_name \in FileNames : retrieve_file(file_name) \/ delete_local_file(file_name)

SpecUploads == InitUploads /\ [][NextUploads]_vars

----------------------------------------------------------------------------
(* DELETE /files/{file_id} *)

MaxDeletions == 2

FileIds == {"file_1", "file_2"}

(* What client.vector_stores.files.delete may do: report deleted, report   *)
(* not deleted, raise.                                                     *)
VsOutcomes == {"deleted", "not_deleted", "raises"}

Call(name, result) == [call |-> name, result |-> result]

(* The upstream calls of one request, in the order they are awaited. *)
DeleteCalls(getRaises, vsOutcome, fileDeleteRaises, listRaises) ==
    IF getRaises THEN <<Call("get_or_create_vector_store", "raises")>>
    ELSE <<Call("get_or_create_vector_store", "ok"),
           Call("vector_stores.files.delete", vsOutcome)>>
         \o (IF vsOutcome = "deleted"
             THEN <<Call("files.delete", IF fileDeleteRaises THEN "raises" ELSE "ok")>>
             ELSE <<>>)
         \o <<Call("vector_stores.files.list", IF listRaises THEN "raises" ELSE "ok")>>

(* error_message of the response, <<>> when there is none. *)
ErrorMessage(getRaises, vsOutcome, listRaises) ==
    IF getRaises THEN <<"Error accessing vector store">>
    ELSE IF vsOutcome = "not_deleted" THEN <<"Failed to remove file from vector store.">>
    ELSE IF vsOutcome = "raises" THEN <<"Error deleting file">>
    ELSE IF listRaises THEN <<"Error fetching file list">>
    ELSE <<>>

(* A handler that fetches the list before it deletes. *)
delete_file_listing_first(file_id, getRaises, vsOutcome, fileDeleteRaises, listRaises) ==
    /\ Len(deletions) < MaxDeletions
    /\ getRaises => (vsOutcome = "raises" /\ ~listRaises)
    /\ fileDeleteRaises => (~getRaises /\ vsOutcome = "deleted")
    /\ vs_files' = IF ~getRaises /\ vsOutcome = "deleted" THEN vs_files \ {file_id}
                   ELSE vs_files
    /\ base_files' = IF ~getRaises /\ vsOutcome = "deleted" /\ ~fileDeleteRaises
                     THEN base_files \ {file_id} ELSE base_files
    /\ deletions' = Append(deletions,
          [file_id |-> file_id,
           calls |-> DeleteCalls(getRaises, vsOutcome, fileDeleteRaises, listRaises),
           error_message |-> ErrorMessage(getRaises, vsOutcome, listRaises),
           files |-> IF getRaises \/ listRaises THEN {} ELSE vs_files,
           listed |-> vs_files',
           base_before |-> base_files, base_after |-> base_files'])
    /\ UNCHANGED <<turnvars, filevars, reqvars, savevars, vsvars, pathvars>>

(* delete_file(file_id): the vector store id is obtained, the file is      *)
(* removed from the vector store, the file object is deleted when that     *)
(* reported deleted, and the list is fetched for the response.  listed is  *)
(* what the vector store holds when the list is fetched.                   *)
delete_file(file_id, getRaises, vsOutcome, fileDeleteRaises, listRaises) ==
    /\ Len(deletions) < MaxDeletions
    /\ getRaises => (vsOutcome = "raises" /\ ~listRaises)
    /\ fileDeleteRaises => (~getRaises /\ vsOutcome = "deleted")
    /\ vs_files' = IF ~getRaises /\ vsOutcome = "deleted" THEN vs_files \ {file_id}
                   ELSE vs_files
    /\ base_files' = IF ~getRaises /\ vsOutcome = "deleted" /\ ~fileDeleteRaises
                     THEN base_files \ {file_id} ELSE base_files
    /\ deletions' = Append(deletions,
          [file_id |-> file_id,
           calls |-> DeleteCalls(getRaises, vsOutcome, fileDeleteRaises, listRaises),
           error_message |-> ErrorMessage(getRaises, vsOutcome, listRaises),
           files |-> IF getRaises \/ listRaises THEN {} ELSE vs_files',
           listed |-> vs_files',
           base_before |-> base_files, base_after |-> base_files'])
    /\ UNCHANGED <<turnvars, filevars, reqvars, savevars, vsvars, pathvars>>

InitDeletions ==
    /\ status = "init" /\ show = FALSE /\ stack = <<>> /\ open = {}
    /\ nstreams = 0 /\ nevents = 0 /\ ncalls = 0 /\ trace = <<>> /\ submitted = <<>>
    /\ RequestsIdle /\ posts = <<>> /\ VectorStoreIdle
    /\ disk = {} /\ served = <<>>
    /\ vs_files = FileIds /\ base_files = FileIds /\ deletions = <<>>
    /\ impl = "config"
    /\ env = NoFile
    /\ written = <<>>
    /\ registry = NoFile
    /\ generated = NoEntries
    /\ readback = NoEntries
    /\ environ = Unset
    /\ setup_message = NoMessage
    /\ environ_tools = Unset
    /\ current_tools = NoTools

NextDeletions ==
    \E file_id \in FileIds, getRaises \in BOOLEAN, vsOutcome \in VsOutcomes,
       fileDeleteRaises \in BOOLEAN, listRaises \in BOOLEAN :
        delete_file(file_id, getRaises, vsOutcome, fileDeleteRaises, listRaises)

SpecDeletions == InitDeletions /\ [][NextDeletions]_vars

----------------------------------------------------------------------------
(* Reading the trace. *)

Pos == DOMAIN trace

IsUp(i, name) == trace[i].k = "up" /\ trace[i].name = name

IsDown(i, name) == trace[i].k = "down" /\ trace[i].name = name

IsEnd(i, marker) == IsDown(i, "endStream") /\ trace[i].data = marker

DownPos == { i \in Pos : trace[i].k = "down" }

(* The upstream events the turn consumed from sub-stream sid, in order. *)
StreamEvents(sid) == SelectSeq(trace, LAMBDA e : e.k = "up" /\ e.sid = sid)

Terminal(e) == e.name \in {"completed", "failed"}

(* The sub-stream began with one StreamStarted and ended with exactly one  *)
(* StreamCompleted/StreamFailed.                                           *)
WellFormedStream(sid) ==
    LET ev == StreamEvents(sid) IN
    /\ Len(ev) >= 2
    /\ ev[1].name = "created"
    /\ Terminal(ev[Len(ev)])
    /\ \A i \in 1 .. Len(ev) - 1 : ~Terminal(ev[i])
    /\ \A i \in 2 .. Len(ev) : ev[i].name # "created"

(* The sub-stream from which sub-stream sid was resumed (0 for the first). *)
ParentOf(sid) ==
    LET o == CHOOSE i \in Pos : trace[i].k = "open" /\ trace[i].sid = sid
    IN trace[o].par

----------------------------------------------------------------------------
(* C1: in a finished turn all of whose sub-streams began with              *)
(* StreamStarted and ended with exactly one StreamCompleted/StreamFailed,  *)
(* the downstream sequence holds exactly one endStream, and it is the last *)
(* downstream event.                                                       *)
C1_ExactlyOneEndStreamLast ==
    (status = "done" /\ \A sid \in 1 .. nstreams : WellFormedStream(sid))
    => /\ Cardinality({ i \in Pos : IsDown(i, "endStream") }) = 1
       /\ \A i \in DownPos : (\A j \in DownPos : j <= i) => IsDown(i, "endStream")

(* C2: once a downstream event of a resumed sub-stream has been emitted,   *)
(* no downstream event of the sub-stream it was resumed from follows.      *)
C2_NoInterleavingAcrossResume ==
    \A i \in DownPos : \A j \in DownPos :
        i < j => trace[j].sid # ParentOf(trace[i].sid)

(* C3: Scenario B.  A sub-stream announces a function call item, delivers  *)
(* it finished and then StreamCompleted: downstream shows toolCallCreated  *)
(* for the item, then toolOutput, then the output is submitted and a       *)
(* sub-stream is resumed, and no endStream:DONE follows the call before    *)
(* the resumed sub-stream has delivered its StreamCompleted.               *)
ScenarioB(d, c) ==
    /\ trace[d].k = "dispatch"
    /\ d < c /\ IsUp(c, "completed") /\ trace[c].sid = trace[d].sid
    /\ \A m \in Pos : (d < m /\ m < c) => ~(trace[m].k = "up" /\ trace[m].sid = trace[d].sid)
    /\ \E a \in Pos : /\ a < d /\ IsUp(a, "item_added")
                      /\ trace[a].data = "function_call"
                      /\ trace[a].item = trace[d].item /\ trace[a].sid = trace[d].sid

C3_ScenarioBOrder ==
    status = "done" =>
    \A d \in Pos : \A c \in Pos : ScenarioB(d, c) =>
        \E t \in Pos : \E u \in Pos : \E n \in Pos :
            /\ \E a \in Pos : a < t /\ IsDown(a, "toolCallCreated")
                              /\ trace[a].item = trace[d].item
            /\ d < t /\ IsDown(t, "toolOutput")
            /\ t < u /\ trace[u].k = "submit" /\ trace[u].item = trace[d].item
            /\ u < n /\ trace[n].k = "open" /\ trace[n].par = trace[d].sid
            /\ \A e \in Pos : (d < e /\ IsEnd(e, "DONE")) =>
                   \E f \in Pos : f < e /\ IsUp(f, "completed")
                                  /\ trace[f].sid = trace[n].sid

(* C4: a textDelta or textReplacement is scoped to an item only after a    *)
(* messageCreated or toolCallCreated for that item.                        *)
C4_DeltaOnlyForCreatedItem ==
    \A j \in Pos :
        (IsDown(j, "textDelta") \/ IsDown(j, "textReplacement")) =>
        \E i \in Pos : /\ i < j
                       /\ (IsDown(i, "messageCreated") \/ IsDown(i, "toolCallCreated"))
                       /\ trace[i].item = trace[j].item

(* C5: an exception raised in a sub-stream's frame is followed downstream  *)
(* by runCompleted, networkError with a non-empty payload and              *)
(* endStream:ERROR, in this order, and the turn opens no stream after it.  *)
C5_FailureSequenceNoNewStream ==
    \A p \in Pos : (trace[p].k = "raise" /\ trace[p].sid # 0) =>
        /\ \E x \in DownPos : \E y \in DownPos : \E z \in DownPos :
              /\ p < x /\ x < y /\ y < z
              /\ \A m \in DownPos : (p < m /\ m <= z) => m \in {x, y, z}
              /\ IsDown(x, "runCompleted")
              /\ IsDown(y, "networkError") /\ trace[y].data # ""
              /\ IsEnd(z, "ERROR")
        /\ \A q \in Pos : p < q => trace[q].k # "open"

(* C6: after endStream:ERROR the turn consumes no upstream event,          *)
(* dispatches no tool and emits nothing downstream.                        *)
C6_FailedIsTerminal ==
    \A p \in Pos : \A q \in Pos :
        (p < q /\ IsEnd(p, "ERROR")) => trace[q].k \notin {"up", "dispatch", "down"}

(* C7: after a cancellation the turn has left every frame; nothing is      *)
(* emitted downstream and no tool is dispatched, the frames only release   *)
(* their sub-streams.                                                      *)
C7_CancellationPropagates ==
    \A p \in Pos : trace[p].k = "cancel" =>
        /\ status = "cancelled" /\ stack = <<>>
        /\ \A q \in Pos : p < q => trace[q].k = "release"

(* A turn cancelled while a resumed sub-stream is being drained, after a   *)
(* tool was dispatched.                                                    *)
C7_Witness ==
    \E p \in Pos : /\ trace[p].k = "cancel"
                   /\ \E d \in Pos : d < p /\ trace[d].k = "dispatch"
                   /\ \E u \in Pos : u < p /\ IsUp(u, "created") /\ trace[u].sid = 2
                   /\ Len(trace) = p + 2

(* C8: the sub-streams open are exactly those of the frames being drained, *)
(* and when the turn has ended (completed, failed or cancelled) every      *)
(* sub-stream it opened has been released.                                 *)
C8_EveryStreamReleased ==
    /\ open = { stack[i].sid : i \in DOMAIN stack }
    /\ status \in {"done", "cancelled", "crashed"} =>
        /\ open = {}
        /\ \A sid \in 1 .. nstreams :
              \E r \in Pos : trace[r].k = "release" /\ trace[r].sid = sid

(* A turn that ended by cancellation with three sub-streams opened, one of *)
(* which had failed before.                                                *)
C8_Witness ==
    /\ status = "cancelled"
    /\ nstreams = 3
    /\ \E p \in Pos : trace[p].k = "raise"

(* C9: a finished tool-call event delivered twice is dispatched at most    *)
(* once.                                                                   *)
C9_ReplayDispatchedOnce ==
    \A d \in Pos : \A e \in Pos :
        (d < e /\ trace[d].k = "dispatch" /\ trace[e].k = "dispatch")
        => ~(trace[d].item = trace[e].item /\ trace[d].name = trace[e].name)

ResultFields == {"ok", "payload", "render_hint"}

----------------------------------------------------------------------------
(* C13: a finished tool call whose arguments are not valid JSON is still   *)
(* dispatched: the dispatch of the call directly follows the event, and no *)
(* exception is raised in its place.                                       *)
C13_InvalidArgumentsStillDispatched ==
    \A p \in Pos :
        (IsUp(p, "item_done") /\ trace[p].aux = "notjson") =>
        /\ p < Len(trace)
        /\ trace[p + 1].k = "dispatch" /\ trace[p + 1].item = trace[p].item

(* C14: in a finished turn every response.failed event consumed from a     *)
(* sub-stream is followed downstream by endStream:ERROR.                   *)
C14_StreamFailedEndsInError ==
    status = "done" =>
    \A p \in Pos : IsUp(p, "failed") =>
        \E e \in Pos : p < e /\ IsEnd(e, "ERROR")

(* No awaited call of the turn raised. *)
NothingRaised == \A p \in Pos : trace[p].k # "raise"

(* C15: in a finished turn in which nothing raised, every dispatched tool  *)
(* call is followed by the submission of its output for its call id, and   *)
(* after the submission by the opening of a sub-stream resumed from the    *)
(* call's sub-stream.                                                      *)
C15_ContinuationAlwaysHappens ==
    (status = "done" /\ NothingRaised) =>
    \A d \in Pos : trace[d].k = "dispatch" =>
        \E u \in Pos : \E n \in Pos :
            /\ d < u /\ trace[u].k = "submit"
            /\ trace[u].item = trace[d].item /\ trace[u].sid = trace[d].sid
            /\ u < n /\ trace[n].k = "open" /\ trace[n].par = trace[d].sid

(* The dispatches and the tool outputs of the turn, in order. *)
ToolSteps ==
    SelectSeq(trace, LAMBDA e : e.k = "dispatch" \/ (e.k = "down" /\ e.name = "toolOutput"))

(* C16: at most one frame is waiting for a tool handler, and dispatches    *)
(* and tool outputs strictly alternate, starting with a dispatch: a tool   *)
(* is dispatched only when the toolOutput of every earlier dispatch has    *)
(* been yielded, by the frame that dispatched it.                          *)
C16_OneToolAtATime ==
    /\ Cardinality({ i \in DOMAIN stack : stack[i].pc = "dispatch" }) <= 1
    /\ \A i \in DOMAIN ToolSteps :
          IF i % 2 = 1 THEN ToolSteps[i].k = "dispatch"
          ELSE /\ ToolSteps[i].k = "down"
               /\ ToolSteps[i].sid = ToolSteps[i - 1].sid

(* Two tools dispatched in one turn, the second while its handler is       *)
(* awaited.                                                                *)
C16_Witness ==
    /\ Running /\ Top.pc = "dispatch"
    /\ Cardinality({ d \in Pos : trace[d].k = "dispatch" }) = 2

(* The upstream events consumed and the downstream events yielded by the   *)
(* turn, in order.                                                         *)
UpSeq == SelectSeq(trace, LAMBDA e : e.k = "up")

DownSeq == SelectSeq(trace, LAMBDA e : e.k = "down")

(* Scenario A for message item m and text t: the turn is over and what it  *)
(* consumed is StreamStarted, ItemStarted(message, m), TextDelta(t),       *)
(* StreamCompleted.                                                        *)
ScenarioA(m, t) ==
    /\ status = "done"
    /\ Len(UpSeq) = 4
    /\ UpSeq[1].name = "created"
    /\ UpSeq[2].name = "item_added" /\ UpSeq[2].data = "message" /\ UpSeq[2].item = m
    /\ UpSeq[3].name = "text_delta" /\ UpSeq[3].data = t
    /\ UpSeq[4].name = "completed"

(* C17: Scenario A yields exactly messageCreated(m), textDelta scoped to m *)
(* carrying t, runCompleted, endStream:DONE.                               *)
C17_ScenarioADownstream ==
    \A m \in ItemIds : \A t \in Deltas : ScenarioA(m, t) =>
        /\ Len(DownSeq) = 4
        /\ DownSeq[1].name = "messageCreated" /\ DownSeq[1].item = m
        /\ DownSeq[2].name = "textDelta" /\ DownSeq[2].item = m /\ DownSeq[2].data = t
        /\ DownSeq[3].name = "runCompleted"
        /\ DownSeq[4].name = "endStream" /\ DownSeq[4].data = "DONE"

C17_Witness == \E m \in ItemIds : \E t \in Deltas : ScenarioA(m, t)

----------------------------------------------------------------------------
(* C11: a container_file_citation annotation whose container file lookup   *)
(* failed is followed neither by a textReplacement nor by an exception of  *)
(* the frame (and so by no endStream:ERROR on its account).                *)
C11_LookupFailureSurvives ==
    \A p \in Pos :
        (IsUp(p, "annotation") /\ trace[p].aux = "lookup_failed") =>
        (p < Len(trace) =>
            /\ ~IsDown(p + 1, "textReplacement")
            /\ trace[p + 1].k # "raise")

(* C12: in a finished turn in which nothing raised, every tool output that *)
(* shows an error (unregistered tool, handler raised) is followed by the   *)
(* submission of the output and by a resumed sub-stream, and when that     *)
(* sub-stream delivered StreamCompleted, by endStream:DONE; a call of an   *)
(* unregistered tool is followed by a tool output showing an error.        *)
C12_ToolErrorDoesNotAbort ==
    (status = "done" /\ NothingRaised) =>
    /\ \A d \in Pos : (trace[d].k = "dispatch" /\ trace[d].name \notin Registered) =>
          \E t \in Pos : /\ d < t /\ IsDown(t, "toolOutput")
                         /\ trace[t].aux = "error" /\ trace[t].sid = trace[d].sid
    /\ \A t \in Pos : (IsDown(t, "toolOutput") /\ trace[t].aux = "error") =>
          \E u \in Pos : \E n \in Pos :
              /\ t < u /\ trace[u].k = "submit" /\ trace[u].sid = trace[t].sid
              /\ u < n /\ trace[n].k = "open" /\ trace[n].par = trace[t].sid
              /\ \A c \in Pos : (IsUp(c, "completed") /\ trace[c].sid = trace[n].sid) =>
                     \E e \in Pos : c < e /\ IsEnd(e, "DONE")

----------------------------------------------------------------------------
(* The value of the most recent update_env_file call for var_name. *)
LastValue(var_name) ==
    LET calls == { i \in DOMAIN written : written[i].name = var_name }
        last == CHOOSE i \in calls : \A j \in calls : j <= i
    IN written[last].value

(* The lines of .env that start with var_name=. *)
LinesOf(var_name) ==
    SelectSeq(ReadLines(env.text), LAMBDA line : StartsWith(line, <<var_name, "=">>))

(* C18: for every variable name written so far, .env exists and holds     *)
(* exactly one line starting with name=, and that line is name= followed   *)
(* by the value of the most recent call for the name.                      *)
C18_OneLineWithLatestValue ==
    \A n \in { written[i].name : i \in DOMAIN written } :
        /\ env.exists
        /\ LinesOf(n) = << <<n, "=">> \o LastValue(n) \o <<"\n">> >>

----------------------------------------------------------------------------
(* C19: read_registry_entries called after generate_registry_file(entries) *)
(* returns exactly those entries.                                          *)
C19_GenerateThenReadRoundTrip ==
    (generated.done /\ readback.done) => readback.entries = generated.entries

----------------------------------------------------------------------------
(* OPENAI_API_KEY is unset or empty in the environment as reloaded by the  *)
(* last GET /setup/.                                                       *)
KeyMissing == ~environ.set \/ environ.value = <<>>

(* C20: the setup message of GET /setup/ mentions the missing API key      *)
(* exactly when OPENAI_API_KEY is unset or empty in the reloaded           *)
(* environment, and is empty when the key is present.                      *)
C20_SetupMessageIffKeyMissing ==
    setup_message.done =>
    /\ KeyMissing <=> setup_message.text = "OpenAI API key is missing."
    /\ ~KeyMissing => setup_message.text = ""

(* GET /setup/ served while .env binds the key to the empty value: the     *)
(* reloaded environment holds the key, set and empty.                      *)
C20_Witness ==
    /\ setup_message.done
    /\ setup_message.text = "OpenAI API key is missing."
    /\ environ.set /\ environ.value = <<>>
    /\ DotenvBinding(env, "OPENAI_API_KEY") = [set |-> TRUE, value |-> <<>>]

----------------------------------------------------------------------------
(* ENABLED_TOOLS as GET /setup/ read it from the reloaded environment. *)
EnabledToolsCsv == GetenvOrEmpty(environ_tools)

(* The comma-separated elements of s: the stretches without a comma that   *)
(* reach from the start or a comma to the end or a comma.                  *)
Elements(s) ==
    { <<i, j>> \in (1 .. Len(s) + 1) \X (0 .. Len(s)) :
        /\ i <= j + 1
        /\ i = 1 \/ s[i - 1] = ","
        /\ j = Len(s) \/ s[j + 1] = ","
        /\ \A k \in i .. j : s[k] # "," }

(* Element <<i, j>> of s, whitespace-trimmed, is the one name tool. *)
TrimsTo(s, e, tool) ==
    \E k \in e[1] .. e[2] :
        /\ s[k] = tool
        /\ \A m \in e[1] .. e[2] : m # k => s[m] \in Whitespace

SetupTools == {"file_search", "function", "mcp", "code_interpreter"}

(* C21: after GET /setup/ a tool is in current_tools if and only if its    *)
(* name is one of the whitespace-trimmed, non-empty, comma-separated       *)
(* elements of ENABLED_TOOLS; with ENABLED_TOOLS empty there is none, with *)
(* file_search,function,mcp exactly those three.                           *)
C21_CurrentToolsAreTrimmedElements ==
    current_tools.done =>
    LET listed == { current_tools.tools[i] : i \in DOMAIN current_tools.tools } IN
    /\ \A tool \in SetupTools :
          <<tool>> \in listed <=>
          \E e \in Elements(EnabledToolsCsv) : TrimsTo(EnabledToolsCsv, e, tool)
    /\ EnabledToolsCsv = <<>> => listed = {}
    /\ EnabledToolsCsv = <<"file_search", ",", "function", ",", "mcp">>
          => listed = {<<"file_search">>, <<"function">>, <<"mcp">>}

(* GET /setup/ served with ENABLED_TOOLS holding blanks around a name, an  *)
(* empty element and a trailing comma.                                     *)
C21_Witness ==
    /\ current_tools.done
    /\ EnabledToolsCsv = <<"file_search", " ", ",", " ", ",", "mcp", ",">>
    /\ current_tools.tools = << <<"file_search">>, <<"mcp">> >>

----------------------------------------------------------------------------
(* The step consumes a text delta while the frame has no current item. *)
TextDeltaWithNoItem ==
    /\ Running /\ Top.current_item_id = ""
    /\ Len(trace') > Len(trace)
    /\ trace'[Len(trace) + 1].k = "up" /\ trace'[Len(trace) + 1].name = "text_delta"

(* C22: a text delta consumed while current_item_id is empty yields        *)
(* nothing downstream and changes nothing of the turn but the record of    *)
(* the event consumed; the frame goes on draining.                         *)
C22_TextDeltaWithNoItemDropped ==
    [][TextDeltaWithNoItem =>
          /\ Len(trace') = Len(trace) + 1
          /\ SubSeq(trace', 1, Len(trace)) = trace
          /\ stack' = stack /\ status' = status /\ open' = open
          /\ submitted' = submitted /\ nstreams' = nstreams]_vars

(* A text delta consumed right after StreamStarted, with more upstream     *)
(* events consumed after it.                                               *)
C22_Witness ==
    \E p \in Pos : /\ p > 1 /\ IsUp(p, "text_delta") /\ IsUp(p - 1, "created")
                   /\ p < Len(trace) /\ trace[p + 1].k = "up"

(* Position a of the trace anchors current_item_id of sub-stream sid to    *)
(* item: an ItemStarted that is not skipped, a finished function call, or  *)
(* an arguments delta when call detail is shown.                           *)
Anchors(a, sid, item) ==
    /\ trace[a].k = "up" /\ trace[a].sid = sid /\ trace[a].item = item
    /\ \/ trace[a].name = "item_added" /\ trace[a].data # "reasoning"
       \/ trace[a].name = "item_done"
       \/ trace[a].name = "args_delta" /\ show

(* C23: a frame entered for a resumed sub-stream starts with the           *)
(* response_id of the frame that resumed it and with no current item, and  *)
(* every textDelta yielded for a resumed sub-stream is scoped to an item   *)
(* anchored by an earlier event of that same sub-stream.                   *)
C23_ResumedFrameStartsUnanchored ==
    /\ \A i \in DOMAIN stack : (i > 1 /\ ~stack[i].started) =>
          /\ stack[i].response_id = stack[i - 1].response_id
          /\ stack[i].current_item_id = ""
    /\ \A j \in Pos : (IsDown(j, "textDelta") /\ trace[j].sid > 1) =>
          \E a \in 1 .. j : Anchors(a, trace[j].sid, trace[j].item)

(* A text delta consumed in a resumed sub-stream before any of its items   *)
(* started, the tool call of the prior sub-stream having anchored item a.  *)
C23_Witness ==
    \E p \in Pos : /\ p > 1 /\ IsUp(p, "text_delta") /\ trace[p].sid = 2
                   /\ IsUp(p - 1, "created")
                   /\ \E d \in Pos : d < p /\ trace[d].k = "dispatch" /\ trace[d].sid = 1

(* The sub-streams whose StreamStarted the turn has consumed. *)
StartedStreams == { trace[p].sid : p \in { q \in Pos : IsUp(q, "created") } }

(* C24: the response_id held by the running frame is the one of the most   *)
(* recently consumed StreamStarted (sub-streams are numbered in the order  *)
(* they are opened, and announce their number as response id).             *)
C24_ResponseIdNeverRolledBack ==
    (Running /\ StartedStreams # {}) =>
    \A sid \in StartedStreams : sid <= Top.response_id

(* C30: an arguments delta for a call for which no toolCallCreated has     *)
(* been yielded is followed by a toolCallCreated for the call.             *)
C30_FirstFragmentCreatesIndicator ==
    \A p \in Pos :
        (/\ IsUp(p, "args_delta")
         /\ \A c \in 1 .. p : ~(IsDown(c, "toolCallCreated") /\ trace[c].item = trace[p].item))
        => /\ p < Len(trace)
           /\ IsDown(p + 1, "toolCallCreated")

----------------------------------------------------------------------------
(* The entry the step appends first to the trace. *)
Consumed == trace'[Len(trace) + 1]

(* The step consumes an upstream event called name. *)
Consumes(name) ==
    /\ Running
    /\ Len(trace') > Len(trace)
    /\ Consumed.k = "up" /\ Consumed.name = name

(* What the step appends to the trace after the event consumed. *)
Yielded == SubSeq(trace', Len(trace) + 2, Len(trace'))

(* The turn state but for the trace: the frames, the status, the open      *)
(* sub-streams and what was submitted stay as they are.                    *)
TurnStateUnchanged ==
    /\ stack' = stack /\ status' = status /\ open' = open
    /\ submitted' = submitted /\ nstreams' = nstreams

(* C25: an ItemStarted of a message item makes it the current item and     *)
(* yields exactly one messageCreated for it; of a function_call or         *)
(* mcp_call item, makes it the current item and yields exactly one         *)
(* toolCallCreated; of any other type, yields nothing and leaves the       *)
(* current item as it was.                                                 *)
C25_ItemStartedByKind ==
    [][Consumes("item_added") =>
          /\ SubSeq(trace', 1, Len(trace)) = trace
          /\ CASE Consumed.data \in {"message", "output_text"} ->
                    /\ stack'[Len(stack')].current_item_id = Consumed.item
                    /\ Len(Yielded) = 1
                    /\ Yielded[1].name = "messageCreated" /\ Yielded[1].item = Consumed.item
               [] Consumed.data \in {"function_call", "mcp_call"} ->
                    /\ stack'[Len(stack')].current_item_id = Consumed.item
                    /\ Len(Yielded) = 1
                    /\ Yielded[1].name = "toolCallCreated" /\ Yielded[1].item = Consumed.item
               [] OTHER -> Yielded = <<>> /\ TurnStateUnchanged]_vars

(* A reasoning item started after message item a, the frame still anchored *)
(* to a.                                                                   *)
C25_Witness ==
    /\ Running /\ Top.current_item_id = "a"
    /\ Len(trace) >= 2
    /\ IsUp(Len(trace), "item_added")
    /\ trace[Len(trace)].data = "reasoning" /\ trace[Len(trace)].item = "b"

----------------------------------------------------------------------------
(* An item is current in the frame when the event at p is consumed: an     *)
(* earlier event of the same sub-stream anchored one.                      *)
ItemActive(p) ==
    \E a \in 1 .. p : \E item \in ItemIds : Anchors(a, trace[p].sid, item)

(* C27: a file_citation annotation consumed while an item is current is    *)
(* followed by exactly one textReplacement scoped to that item, and by no  *)
(* exception of the frame.                                                 *)
C27_FileCitationYieldsReplacement ==
    \A p \in Pos :
        (IsUp(p, "annotation") /\ trace[p].data = "file_citation" /\ ItemActive(p)) =>
        /\ p < Len(trace)
        /\ IsDown(p + 1, "textReplacement")
        /\ \E a \in 1 .. p : Anchors(a, trace[p].sid, trace[p + 1].item)
        /\ p + 1 < Len(trace) => trace[p + 2].k \notin {"down", "raise"}

(* C28: an annotation of a type other than file_citation and               *)
(* container_file_citation yields nothing downstream, raises nothing and   *)
(* leaves the turn state as it was.                                        *)
C28_UnknownAnnotationIgnored ==
    [][(Consumes("annotation")
        /\ Consumed.data \notin {"file_citation", "container_file_citation"}) =>
          /\ SubSeq(trace', 1, Len(trace)) = trace
          /\ Yielded = <<>>
          /\ TurnStateUnchanged]_vars

(* An annotation of an unknown type consumed while message item a is       *)
(* current, the sub-stream then completing.                                *)
C28_Witness ==
    \E p \in Pos : /\ IsUp(p, "annotation") /\ trace[p].data = "url_citation"
                   /\ p > 2 /\ IsDown(p - 1, "messageCreated")
                   /\ p + 3 <= Len(trace)
                   /\ IsUp(p + 1, "completed") /\ IsEnd(p + 3, "DONE")

----------------------------------------------------------------------------
(* C26: a dispatch is followed by one toolOutput of its sub-stream, be the *)
(* rendering the template, the generic dump or the raw-JSON fallback; what *)
(* follows that toolOutput is neither a second toolOutput nor an exception *)
(* of the frame; and the output of a call is submitted only directly after *)
(* its toolOutput was yielded.                                             *)
C26_OneToolOutputBeforeSubmit ==
    /\ \A p \in Pos :
          trace[p].k = "dispatch" =>
            IF p = Len(trace)
            THEN Running /\ Top.pc = "dispatch" /\ Top.sid = trace[p].sid
            ELSE /\ IsDown(p + 1, "toolOutput")
                 /\ trace[p + 1].sid = trace[p].sid
                 /\ trace[p + 1].data \in {"template", "generic", "fallback"}
                 /\ p + 1 < Len(trace) =>
                       /\ ~IsDown(p + 2, "toolOutput")
                       /\ trace[p + 2].k # "raise"
    /\ \A q \in Pos :
          trace[q].k = "submit" =>
            /\ q > 2
            /\ IsDown(q - 1, "toolOutput") /\ trace[q - 1].sid = trace[q].sid
            /\ trace[q - 2].k = "dispatch" /\ trace[q - 2].item = trace[q].item
    /\ \A q \in Pos :
          IsDown(q, "toolOutput") => (q > 1 /\ trace[q - 1].k = "dispatch")

(* The template of a tool failed to render: the fallback is its one        *)
(* toolOutput, and the output was then submitted.                          *)
C26_Witness ==
    \E p \in Pos :
        /\ trace[p].k = "dispatch"
        /\ p + 2 <= Len(trace)
        /\ IsDown(p + 1, "toolOutput") /\ trace[p + 1].data = "fallback"
        /\ trace[p + 2].k = "submit"

----------------------------------------------------------------------------
(* C31: a step that consumes an arguments delta yields one toolDelta, for  *)
(* the item and with the fragment of that delta, when call detail is       *)
(* shown, and nothing otherwise; with call detail not shown no toolDelta   *)
(* is ever yielded.                                                        *)
C31_ToolDeltaIffDetailShown ==
    /\ [](~show => \A p \in Pos : ~IsDown(p, "toolDelta"))
    /\ [][Consumes("args_delta") =>
            /\ SubSeq(trace', 1, Len(trace)) = trace
            /\ IF show
               THEN /\ Len(Yielded) = 1
                    /\ Yielded[1].k = "down" /\ Yielded[1].name = "toolDelta"
                    /\ Yielded[1].item = Consumed.item
                    /\ Yielded[1].data = Consumed.data
               ELSE Yielded = <<>>]_vars

(* With call detail not shown, an arguments delta was consumed after the   *)
(* call item started, and the sub-stream went on.                          *)
C31_Witness ==
    /\ ~show
    /\ \E p \in Pos : /\ IsUp(p, "args_delta")
                      /\ p > 1 /\ IsDown(p - 1, "toolCallCreated")
                      /\ p < Len(trace) /\ trace[p + 1].k = "up"

(* C32: what the client receives of a textDelta, textReplacement or        *)
(* toolDelta is its text wrapped once in the span of its item, whatever    *)
(* the depth of the sub-stream that yielded it.                            *)
C32_PayloadWrappedOnce ==
    \A p \in Pos :
        (IsDown(p, "textDelta") \/ IsDown(p, "textReplacement") \/ IsDown(p, "toolDelta")) =>
        trace[p].aux = wrap_for_oob_swap(trace[p].item, trace[p].data)

(* A toolDelta yielded by the frame of a resumed sub-stream and passed on  *)
(* by the frame that resumed it.                                           *)
C32_Witness ==
    \E p \in Pos : /\ IsDown(p, "toolDelta") /\ trace[p].sid > 1
                   /\ trace[p].aux = wrap_for_oob_swap(trace[p].item, trace[p].data)
                   /\ \E o \in Pos : trace[o].k = "open" /\ trace[o].sid = trace[p].sid
                                      /\ trace[o].par >= 1

----------------------------------------------------------------------------
(* The upstream event whose handling yields the downstream event at q is   *)
(* the entry just before it (two before, for the second event of a pair    *)
(* and for a toolOutput, which follows the dispatch), of the same          *)
(* sub-stream and with the content the event at q was made from.           *)
YieldedInPlace(q) ==
    LET e == trace[q]
        src(d, name) == /\ q > d /\ IsUp(q - d, name) /\ trace[q - d].sid = e.sid
    IN CASE e.name \in {"messageCreated", "toolCallCreated"} ->
                 src(1, "item_added") /\ trace[q - 1].item = e.item
         [] e.name = "textDelta" ->
                 src(1, "text_delta") /\ trace[q - 1].data = e.data
         [] e.name = "toolDelta" ->
                 /\ src(1, "args_delta")
                 /\ trace[q - 1].item = e.item /\ trace[q - 1].data = e.data
         [] e.name = "textReplacement" -> src(1, "annotation")
         [] e.name = "toolOutput" -> src(2, "item_done")
         [] e.name = "runCompleted" -> src(1, "completed")
         [] e.name = "endStream" -> src(2, "completed")
         [] OTHER -> FALSE

(* C33: every downstream event is yielded right after the upstream event   *)
(* of its sub-stream it derives from, before a later event of that         *)
(* sub-stream is taken; and everything a resumed sub-stream yields comes   *)
(* before the next event of the sub-stream that resumed it.                *)
C33_DownstreamInArrivalOrder ==
    /\ \A q \in Pos : trace[q].k = "down" => YieldedInPlace(q)
    /\ \A o \in Pos :
          (trace[o].k = "open" /\ trace[o].par >= 1) =>
          \A u \in Pos :
              (u > o /\ trace[u].k = "up" /\ trace[u].sid = trace[o].par) =>
              \A q \in Pos : trace[q].sid = trace[o].sid => q < u

(* ItemStarted and then a text delta of one sub-stream: messageCreated     *)
(* and then textDelta downstream.                                          *)
C33_Witness ==
    \E p \in Pos :
        /\ p + 3 <= Len(trace)
        /\ IsUp(p, "item_added") /\ IsDown(p + 1, "messageCreated")
        /\ IsUp(p + 2, "text_delta") /\ IsDown(p + 3, "textDelta")
        /\ trace[p + 2].sid = trace[p].sid

----------------------------------------------------------------------------
(* The upstream events consumed so far, and the names and target items of  *)
(* what was yielded for them.                                              *)
UpstreamSoFar == SelectSeq(trace, LAMBDA e : e.k = "up")

DownstreamSoFar ==
    LET downs == SelectSeq(trace, LAMBDA e : e.k = "down")
    IN [i \in DOMAIN downs |-> Target(downs[i].name, downs[i].item)]

(* Drained computes what the turn yields. *)
DrainedAgreesWithTurn == DownstreamSoFar = Drained(UpstreamSoFar, "", show)

(* C36: for the upstream events consumed so far, the downstream sequence   *)
(* with call detail shown, less its toolDelta events, has the names and    *)
(* target items of the downstream sequence with call detail not shown.     *)
C36_DetailOnlyAddsDetail ==
    SelectSeq(Drained(UpstreamSoFar, "", TRUE), LAMBDA d : d.name # "toolDelta")
        = Drained(UpstreamSoFar, "", FALSE)

----------------------------------------------------------------------------
(* C35: every responses.create call of the turn, the first and each made   *)
(* to resume after a tool call, carries the conversation of the turn, the  *)
(* model, tools and instructions event_generator read when the turn        *)
(* started, and parallel_tool_calls = False, whatever is stored by then.   *)
C35_RequestsCarryTurnConfig ==
    /\ Len(requests) = Cardinality({ i \in Pos : trace[i].k = "open" })
    /\ \A i \in DOMAIN requests :
          /\ requests[i] = requests[1]
          /\ requests[i] = Request(closure)
          /\ requests[i].conversation = ConversationId
          /\ requests[i].parallel_tool_calls = FALSE

(* The configuration was saved with other values after the turn started    *)
(* and before it resumed after a tool call.                                *)
C35_Witness ==
    /\ Len(requests) >= 2
    /\ ReadConfig(stored) # closure
    /\ \E c, o \in Pos : /\ c < o
                         /\ trace[c].k = "config_saved"
                         /\ trace[o].k = "open" /\ trace[o].par >= 1
                         /\ \E f \in 1 .. c : trace[f].k = "open"

----------------------------------------------------------------------------
SavedNames ==
    {"RESPONSES_MODEL", "RESPONSES_INSTRUCTIONS", "ENABLED_TOOLS", "SHOW_TOOL_CALL_DETAIL"}

(* The step handles one POST /setup/config. *)
SavePosted == Len(posts') = Len(posts) + 1

(* C34: a standard save without model or without instructions leaves .env *)
(* as it was, calls update_env_file for none of the four variables and     *)
(* redirects with status=error; a save with both calls it once for each    *)
(* of the four, after which .env binds each of them on one line, and       *)
(* redirects with status=success.                                          *)
C34_SaveWritesAllOrNothing ==
    [][SavePosted =>
        LET post == posts'[Len(posts')]
            calls == SubSeq(written', Len(written) + 1, Len(written'))
        IN /\ SubSeq(written', 1, Len(written)) = written
           /\ IF post.model = <<>> \/ post.instructions = <<>>
              THEN /\ post.status = "error"
                   /\ calls = <<>>
                   /\ env' = env
              ELSE /\ post.status = "success"
                   /\ Len(calls) = 4
                   /\ { calls[i].name : i \in 1 .. 4 } = SavedNames
                   /\ env'.exists
                   /\ \A n \in SavedNames :
                         Len(SelectSeq(ReadLines(env'.text),
                                       LAMBDA line : StartsWith(line, <<n, "=">>))) = 1]_vars

(* A save without instructions after a save that had both. *)
C34_Witness ==
    /\ Len(posts) = 2
    /\ posts[1].status = "success" /\ posts[2].status = "error"
    /\ posts[2].model # <<>> /\ posts[2].instructions = <<>>
    /\ Len(written) = 4

----------------------------------------------------------------------------
(* C37: at most one vector store is created upstream, and every call of    *)
(* get_or_create_vector_store that has returned returned its id.           *)
C37_VectorStoreCreatedOnce ==
    /\ Len(vector_stores) <= 1
    /\ \A i \in DOMAIN vs_calls :
          vs_calls[i].pc = "returned" => vs_calls[i].id = vector_stores[1]

----------------------------------------------------------------------------
(* Values a call may be given, one of them with a line break in it. *)
FrameValues == VarValues \cup { <<"o3", "\n", "OTHER", "=", "1">> }

(* Variables a .env file may bind. *)
FrameNames == VarNames \cup {"OTHER"}

(* The .env file after update_env_file(var_name, var_value) of module m. *)
Updated(m, file, var_name, var_value) ==
    IF m = "create_assistant"
    THEN update_env_file_create_assistant(file, var_name, var_value)
    ELSE update_env_file(file, var_name, var_value)

(* Module m's update_env_file leaves every other binding of file alone. *)
OtherBindingsKept(m, file) ==
    \A var_name \in VarNames, var_value \in FrameValues :
        \A other \in FrameNames \ {var_name} :
            DotenvBinding(Updated(m, file, var_name, var_value), other)
                = DotenvBinding(file, other)

(* C38: whatever .env holds by now, a further update_env_file(name, value) *)
(* of the module in use leaves the binding of every variable other than    *)
(* name as it is.                                                          *)
C38_OtherBindingsUnchanged == OtherBindingsKept(impl, env)

----------------------------------------------------------------------------
(* The file a name stands for lies in the uploads directory: the           *)
(* components of its absolute path begin with those of the directory.      *)
InUploads(file_name) ==
    LET path == SplitPath(abspath(PathJoin(upload_dir, file_name)))
        dir == SplitPath(abspath(upload_dir))
    IN Len(path) > Len(dir) /\ SubSeq(path, 1, Len(dir)) = dir

(* C39: no call of retrieve_file or delete_local_file with a name that     *)
(* stands for a file outside the uploads directory serves or removes the   *)
(* file, and when that file exists the call is answered with 403.          *)
C39_OutsideUploadsForbidden ==
    \A i \in DOMAIN served :
        ~InUploads(served[i].file_name) =>
            /\ served[i].outcome \notin {"200", "removed"}
            /\ served[i].existed => served[i].outcome = "403"

----------------------------------------------------------------------------
(* The position of the call named name among the calls of request d, 0     *)
(* when it was not made.                                                   *)
CallAt(d, name) ==
    LET at == { i \in DOMAIN d.calls : d.calls[i].call = name }
    IN IF at = {} THEN 0 ELSE CHOOSE i \in at : TRUE

(* files.delete is called only after vector_stores.files.delete reported   *)
(* deleted; when that failed or raised, the file object is still there     *)
(* and the response has an error message.                                  *)
BaseDeletedAfterVsOnly(d) ==
    LET vs == CallAt(d, "vector_stores.files.delete")
        base == CallAt(d, "files.delete")
    IN /\ base # 0 => (vs # 0 /\ vs < base /\ d.calls[vs].result = "deleted")
       /\ (vs # 0 /\ d.calls[vs].result # "deleted") =>
             (base = 0 /\ d.base_after = d.base_before /\ d.error_message # <<>>)

(* The list was fetched, after every deletion call. *)
ListedAfterDeleting(d) ==
    LET list == CallAt(d, "vector_stores.files.list")
    IN /\ list # 0 /\ d.calls[list].result = "ok"
       /\ list = Len(d.calls)
       /\ d.files = d.listed

====
